---- MODULE Spec2Model ----
\* Breadcrumb: the buffering ingest client (packages/core), the SDK handles
\* (packages/sdk-typescript) and the ingest gateway (services/server/src/ingest).
EXTENDS Integers, Sequences, FiniteSets, TLC

\* ------------------------------------------------------------------ bounds

\* payloads handed to the client in one behaviour
MaxItems == 3
\* flush() invocations (explicit, shutdown, size threshold, timer) in one behaviour
MaxCalls == 3
\* TraceHandle objects created in one behaviour
MaxTraceHandles == 1
\* SpanHandle objects created in one behaviour
MaxSpanHandles == 1
\* end() invocations counted per handle
MaxEndCalls == 2
\* SpanHandle objects created in one behaviour that builds a span tree
MaxTreeSpans == 2
\* last reading of the application's clock, in milliseconds
MaxSdkClock == 1

\* trace ids the gateway is sent
MaxTraceIds == 2
\* requests sent to the gateway in one behaviour
MaxPosts == 3
\* last reading of the gateway's clock, in milliseconds
MaxClock == 2
\* trace requests sent to the gateway in one behaviour that also merges or reads
MaxStorePosts == 2
\* span requests sent to the gateway in one behaviour
MaxSpanPosts == 2
\* read queries answered in one behaviour
MaxReads == 1
\* latest instant, in milliseconds, of a timestamp handed to calcDuration
MaxTime == 3
\* calcDuration invocations in one behaviour
MaxDurations == 2
\* toMicroDollars invocations in one behaviour
MaxConversions == 2
\* numbered migration files the migrations directory can hold
MaxMigrations == 2
\* statements of one migration file
MaxStatements == 2
\* runs of the migration runner in one behaviour
MaxRuns == 2
\* resolveApiKey invocations in one behaviour
MaxLookups == 3
\* toJson invocations in one behaviour
MaxJsonCalls == 2

\* values of the maxBatchSize option the model is run with
BatchSizes == {2}
\* lengths of the array the application hands to sendSpans
SpansArgs == {0, 2}
\* values of the flushInterval option: 0 disables the timer
FlushIntervals == {0, 10}

\* hashes of the API keys presented to the gateway
KeyHashes == {"k1"}
\* the value of keyCache.get(hash) when the map has no entry
NoEntry == [projectId |-> "", expiresAt |-> 0]

TraceHandleIds == 1..MaxTraceHandles
SpanHandleIds == 1..MaxSpanHandles
TreeSpanIds == 1..MaxTreeSpans

\* ------------------------------------------------------------------ state

VARIABLES
    maxBatchSize,   \* IngestClient.#maxBatchSize
    flushInterval,  \* IngestClient.#flushInterval
    traceBuffer,    \* IngestClient.#traceBuffer
    spanBuffer,     \* IngestClient.#spanBuffer
    timer,          \* IngestClient.#timer: "null", or a handle whose timeout is "pending" or has "fired"
    timeouts,       \* timeouts of the event loop that were set by #scheduleFlush and not yet fired or cleared
    calls,          \* the flush() invocations so far: locals and the state of the returned promise
    requests,       \* the fetch() calls so far, each with its outcome
    nextItem,       \* number of payloads built so far
    traceHandles,   \* TraceHandle objects: their fields and the end() invocations
    spanHandles,    \* SpanHandle objects: their fields and the end() invocations
    clock,          \* new Date() in the application's process, in milliseconds
    now,            \* Date.now() on the gateway
    wire,           \* POST /v1/traces requests sent and not yet handled
    posts,          \* number of requests sent to the gateway so far
    traceRows,      \* the rows of breadcrumb.traces, in insertion order
    replies,        \* per route, the requests handled with their HTTP status, in handling order
    spanWire,       \* POST /v1/spans requests sent and not yet handled
    spanPosts,      \* number of span requests sent to the gateway so far
    spanRows,       \* the rows of breadcrumb.spans, in insertion order
    rollupRows,     \* the rows of breadcrumb.trace_rollups: partial rollups not yet merged away
    inserts,        \* per table, the number of values of each clickhouse.insert call so far
    reads,          \* number of read queries answered so far
    listed,         \* the last answer of list_traces
    stats,          \* the last answer of stats
    durations,      \* calcDuration invocations and the last average taken over them
    conversions,    \* toMicroDollars invocations: the amount and the result
    migrationFiles, \* the names of the files of the ClickHouse migrations directory
    schemaMigrations, \* the rows of breadcrumb.schema_migrations, in insertion order
    statementLog,   \* the migration statements sent to ClickHouse so far, each with its outcome
    runner,         \* runClickhouseMigrations: its locals and its position
    apiKeys,        \* per key hash, whether the api_keys table holds it, held it or never did
    keyCache,       \* the keyCache map of the auth middleware
    lookups,        \* the resolveApiKey invocations so far: locals, position and result
    jsonCalls       \* toJson invocations: the value and the result

clientVars == <<maxBatchSize, flushInterval, traceBuffer, spanBuffer, timer,
                timeouts, calls, requests, nextItem>>
sdkVars == <<traceHandles, spanHandles, clock>>
storeVars == <<spanWire, spanPosts, spanRows, rollupRows, inserts>>
readVars == <<reads, listed, stats, durations, conversions>>
migrationVars == <<migrationFiles, schemaMigrations, statementLog, runner>>
authVars == <<apiKeys, keyCache, lookups>>
serverVars == <<migrationVars, authVars, jsonCalls>>
gwVars == <<now, wire, posts, traceRows, replies, storeVars, readVars, serverVars>>
vars == <<clientVars, sdkVars, gwVars>>

\* avgIf over no row: the query answers null, and Number(null ?? 0) is 0
NoStats == [sum |-> 0, count |-> 0]

\* the routes of ingestRoutes
Routes == {"/traces", "/spans"}

\* the tables the routes insert into
Tables == {"breadcrumb.traces", "breadcrumb.spans"}

Explicit == {"flush", "shutdown"}
Background == {"auto", "timer"}

\* ------------------------------------------------------------------ helpers

Range(s) == {s[i] : i \in 1..Len(s)}

\* a timestamp string: the instant it names, and its format
Iso(ms) == [ms |-> ms, fmt |-> "iso"]
\* a field the payload does not carry
Undefined == [ms |-> 0, fmt |-> "undefined"]

RECURSIVE SeqMap(_, _)
\* one single-payload request per element of traces, in order
SeqMap(c, traces) ==
    IF traces = <<>> THEN <<>>
    ELSE <<[call |-> c, path |-> "/v1/traces", array |-> FALSE,
            body |-> <<Head(traces)>>, st |-> "inflight"]>>
         \o SeqMap(c, Tail(traces))

\* ------------------------------------------------------------------ IngestClient

\* Array.prototype.splice(0): the value returned (every element)
Detached(buf) == buf

\* a read of the buffer that leaves it as it was (slice(0) for splice(0))
BufferKept(buf) == buf

\* what #traceBuffer holds after this.#traceBuffer.splice(0)
TraceBufferAfterSplice(buf) == <<>>

\* what #spanBuffer holds after this.#spanBuffer.splice(0)
SpanBufferAfterSplice(buf) == <<>>

\* every trace in one batched request, as the spans are sent
TraceRequestsBatched(c, traces) ==
    IF Len(traces) > 0
    THEN <<[call |-> c, path |-> "/v1/traces", array |-> TRUE,
            body |-> traces, st |-> "inflight"]>>
    ELSE <<>>

\* for (const trace of traces) requests.push(this.#post("/v1/traces", trace))
TraceRequests(c, traces) == SeqMap(c, traces)

\* if (spans.length > 0) requests.push(this.#post("/v1/spans", spans))
SpanRequests(c, spans) ==
    IF Len(spans) > 0
    THEN <<[call |-> c, path |-> "/v1/spans", array |-> TRUE,
            body |-> spans, st |-> "inflight"]>>
    ELSE <<>>

\* every rejection handed to onError, the explicit calls' too
SettleRejectedReported(call) ==
    [call EXCEPT !.st = "reported", !.onErr = @ + 1]

\* the rejection of the promise flush() returned, as its consumer handles it:
\* the caller of flush()/shutdown() receives it; #autoFlush and the timer
\* callback attach .catch(this.#onError)
SettleRejected(call) ==
    IF call.kind \in Explicit
    THEN [call EXCEPT !.st = "thrown"]
    ELSE [call EXCEPT !.st = "reported", !.onErr = @ + 1]

\* flush(): both buffers are spliced and every request is issued before the
\* first await; with no request the promise resolves at once
Flushed(kind, tb, sb) ==
    LET c      == Len(calls) + 1
        traces == Detached(tb)
        spans  == Detached(sb)
        reqs   == TraceRequests(c, traces) \o SpanRequests(c, spans)
    IN  [traceBuffer |-> TraceBufferAfterSplice(tb),
         spanBuffer  |-> SpanBufferAfterSplice(sb),
         requests    |-> requests \o reqs,
         calls       |-> Append(calls,
                          [kind |-> kind, traces |-> traces, spans |-> spans,
                           st |-> IF reqs = <<>> THEN "resolved" ELSE "pending",
                           onErr |-> 0])]

ApplyFlush(kind, tb, sb) ==
    LET f == Flushed(kind, tb, sb)
    IN  /\ Len(calls) < MaxCalls
        /\ traceBuffer' = f.traceBuffer
        /\ spanBuffer' = f.spanBuffer
        /\ requests' = f.requests
        /\ calls' = f.calls

\* the size check that ends sendTrace, sendSpan and sendSpans, and #autoFlush
Enqueued(tb, sb, full) ==
    IF full
    THEN ApplyFlush("auto", tb, sb)
    ELSE /\ traceBuffer' = tb
         /\ spanBuffer' = sb
         /\ UNCHANGED <<calls, requests>>

\* a size check that flushes only above the threshold
SendTraceAbove(payload) ==
    LET tb == Append(traceBuffer, payload)
    IN  Enqueued(tb, spanBuffer, Len(tb) > maxBatchSize)

\* sendTrace(payload)
SendTrace(payload) ==
    LET tb == Append(traceBuffer, payload)
    IN  Enqueued(tb, spanBuffer, Len(tb) >= maxBatchSize)

\* sendSpan(payload)
SendSpan(payload) ==
    LET sb == Append(spanBuffer, payload)
    IN  Enqueued(traceBuffer, sb, Len(sb) >= maxBatchSize)

\* payloads put in front of the buffer (unshift for push)
SendSpansFront(payloads) ==
    LET sb == payloads \o spanBuffer
    IN  Enqueued(traceBuffer, sb, Len(sb) >= maxBatchSize)

\* sendSpans(payloads)
SendSpans(payloads) ==
    LET sb == spanBuffer \o payloads
    IN  Enqueued(traceBuffer, sb, Len(sb) >= maxBatchSize)

\* the application calls sendTrace with a payload of its own
CallSendTrace ==
    /\ nextItem < MaxItems
    /\ nextItem' = nextItem + 1
    /\ SendTrace([id |-> nextItem + 1, ev |-> "open", h |-> 0])
    /\ UNCHANGED <<maxBatchSize, flushInterval, timer, timeouts, sdkVars, gwVars>>

\* the application calls sendSpan with a payload of its own
CallSendSpan ==
    /\ nextItem < MaxItems
    /\ nextItem' = nextItem + 1
    /\ SendSpan([id |-> nextItem + 1, ev |-> "span", h |-> 0])
    /\ UNCHANGED <<maxBatchSize, flushInterval, timer, timeouts, sdkVars, gwVars>>

\* the application calls sendSpans with k payloads of its own
CallSendSpans(k) ==
    /\ nextItem + k <= MaxItems
    /\ nextItem' = nextItem + k
    /\ SendSpans([i \in 1..k |-> [id |-> nextItem + i, ev |-> "span", h |-> 0]])
    /\ UNCHANGED <<maxBatchSize, flushInterval, timer, timeouts, sdkVars, gwVars>>

\* flush(), called by the application
Flush ==
    /\ ApplyFlush("flush", traceBuffer, spanBuffer)
    /\ UNCHANGED <<maxBatchSize, flushInterval, timer, timeouts, nextItem, sdkVars, gwVars>>

\* clearTimeout(this.#timer) for a non-null #timer
TimeoutsAfterClear(t, n) == IF t = "pending" THEN n - 1 ELSE n

\* shutdown(), called by the application
Shutdown ==
    /\ timeouts' = IF timer # "null" THEN TimeoutsAfterClear(timer, timeouts) ELSE timeouts
    /\ timer' = "null"
    /\ ApplyFlush("shutdown", traceBuffer, spanBuffer)
    /\ UNCHANGED <<maxBatchSize, flushInterval, nextItem, sdkVars, gwVars>>

\* .then(() => this.#scheduleFlush()) for .finally(...): no re-arm after a failure
RearmsOnSuccess(kind, was, is) ==
    kind = "timer" /\ was = "pending" /\ is = "resolved"

\* .finally(() => { this.#scheduleFlush(); }) of the timer callback: runs when
\* the promise of the timer's flush settles, either way
Rearms(kind, was, is) ==
    kind = "timer" /\ was = "pending" /\ is # "pending"

\* a callback that sets the next timeout before it calls flush()
TimerFireInterval ==
    /\ timeouts > 0
    /\ ApplyFlush("timer", traceBuffer, spanBuffer)
    /\ timer' = "pending"
    /\ timeouts' = timeouts
    /\ UNCHANGED <<maxBatchSize, flushInterval, nextItem, sdkVars, gwVars>>

\* a callback that calls flush() and leaves the re-arming to the completion of
\* its requests: none when the buffers were empty
TimerFireOnce ==
    /\ timeouts > 0
    /\ ApplyFlush("timer", traceBuffer, spanBuffer)
    /\ timer' = IF timeouts = 1 /\ timer = "pending" THEN "fired" ELSE timer
    /\ timeouts' = timeouts - 1
    /\ UNCHANGED <<maxBatchSize, flushInterval, nextItem, sdkVars, gwVars>>

\* the callback #scheduleFlush hands to setTimeout: flush(), and when its promise
\* has settled, #scheduleFlush() again. Timeouts of equal delay fire in the order
\* they were set, so the one #timer refers to fires last.
TimerFire ==
    /\ timeouts > 0
    /\ ApplyFlush("timer", traceBuffer, spanBuffer)
    /\ IF Rearms("timer", "pending", calls'[Len(calls')].st)
       THEN /\ timer' = "pending"
            /\ timeouts' = timeouts
       ELSE /\ timer' = IF timeouts = 1 /\ timer = "pending" THEN "fired" ELSE timer
            /\ timeouts' = timeouts - 1
    /\ UNCHANGED <<maxBatchSize, flushInterval, nextItem, sdkVars, gwVars>>

\* a promise that resolves with the first request that succeeds
SettledOnFirst(c, r, ok) ==
    LET call == calls[c]
    IN  IF call.st # "pending" THEN call
        ELSE IF ~ok THEN SettleRejected(call)
        ELSE [call EXCEPT !.st = "resolved"]

\* the state of call c's promise (Promise.all over its requests) once request r
\* has completed with outcome ok
Settled(c, r, ok) ==
    LET call == calls[c]
        rest == {q \in 1..Len(requests) : q # r /\ requests[q].call = c}
    IN  IF call.st # "pending" THEN call
        ELSE IF ~ok THEN SettleRejected(call)
        ELSE IF \A q \in rest : requests[q].st = "ok"
             THEN [call EXCEPT !.st = "resolved"]
             ELSE call

\* #post: the fetch of request r completes, with an ok response (ok) or with a
\* network error or a non-ok response (~ok)
Complete(r, ok) ==
    LET c    == requests[r].call
        call == Settled(c, r, ok)
    IN  /\ requests[r].st = "inflight"
        /\ requests' = [requests EXCEPT ![r].st = IF ok THEN "ok" ELSE "failed"]
        /\ calls' = [calls EXCEPT ![c] = call]
        /\ IF Rearms(call.kind, calls[c].st, call.st)
           THEN /\ timer' = "pending"
                /\ timeouts' = timeouts + 1
           ELSE UNCHANGED <<timer, timeouts>>
        /\ UNCHANGED <<maxBatchSize, flushInterval, traceBuffer, spanBuffer,
                       nextItem, sdkVars, gwVars>>

RequestOk == \E r \in 1..Len(requests) : Complete(r, TRUE)

RequestFail == \E r \in 1..Len(requests) : Complete(r, FALSE)

\* ------------------------------------------------------------------ SDK handles

\* an #ended flag that is never read
NeverEnded(handle) == FALSE

\* if (this.#ended) return;
AlreadyEnded(handle) == handle.state = "ended"

\* a TraceHandle not yet constructed
NoTraceHandle ==
    [state |-> "none", ends |-> 0, id |-> 0, name |-> "", startTime |-> Undefined]

\* a SpanHandle not yet constructed
NoSpanHandle ==
    [state |-> "none", ends |-> 0, id |-> 0, traceId |-> 0, parentSpanId |-> 0,
     startTime |-> Undefined]

\* parentSpanId of a SpanHandle constructed without one
NoSpan == 0

\* the options the application hands to Breadcrumb.trace
TraceOptions == [name |-> "n", userId |-> "u", environment |-> "production"]

\* end() without an argument: opts = {}
NoOptions == [status |-> "undefined"]

\* the options the application hands to end()
EndOptions == {NoOptions, [status |-> "error"]}

\* a status taken from the options as it is
StatusAsGiven(status) == status

\* opts.status ?? "ok"
StatusOrOk(status) == IF status = "undefined" THEN "ok" ELSE status

\* new TraceHandle(client, opts): the open event is sent in the constructor
NewTraceOf(t, opts) ==
    LET handle == [state |-> "open", ends |-> 0, id |-> t, name |-> opts.name,
                   startTime |-> Iso(clock)]
    IN  /\ traceHandles[t].state = "none"
        /\ nextItem < MaxItems
        /\ nextItem' = nextItem + 1
        /\ traceHandles' = [traceHandles EXCEPT ![t] = handle]
        /\ SendTrace([id |-> nextItem + 1, ev |-> "open", h |-> t,
                      data |-> [id          |-> handle.id,
                                name        |-> opts.name,
                                start_time  |-> handle.startTime,
                                end_time    |-> Undefined,
                                status      |-> "undefined",
                                user_id     |-> opts.userId,
                                environment |-> opts.environment]])
        /\ UNCHANGED <<maxBatchSize, flushInterval, timer, timeouts, spanHandles,
                       clock, gwVars>>

\* Breadcrumb.trace(opts)
NewTrace(t) == NewTraceOf(t, TraceOptions)

\* TraceHandle.end(opts)
EndTraceOf(t, opts) ==
    /\ traceHandles[t].state # "none"
    /\ traceHandles[t].ends < MaxEndCalls
    /\ IF AlreadyEnded(traceHandles[t])
       THEN /\ traceHandles' = [traceHandles EXCEPT ![t].ends = @ + 1]
            /\ UNCHANGED clientVars
       ELSE /\ nextItem < MaxItems
            /\ nextItem' = nextItem + 1
            /\ traceHandles' = [traceHandles EXCEPT ![t].state = "ended", ![t].ends = @ + 1]
            /\ SendTrace([id |-> nextItem + 1, ev |-> "close", h |-> t,
                          data |-> [id          |-> traceHandles[t].id,
                                    name        |-> traceHandles[t].name,
                                    start_time  |-> traceHandles[t].startTime,
                                    end_time    |-> Iso(clock),
                                    status      |-> StatusOrOk(opts.status),
                                    user_id     |-> "undefined",
                                    environment |-> "undefined"]])
            /\ UNCHANGED <<maxBatchSize, flushInterval, timer, timeouts>>
    /\ UNCHANGED <<spanHandles, clock, gwVars>>

\* TraceHandle.end()
EndTrace(t) == EndTraceOf(t, NoOptions)

\* new SpanHandle(client, traceId, opts, parentSpanId): nothing is sent
NewSpanHandle(s, traceId, parentSpanId) ==
    /\ spanHandles[s].state = "none"
    /\ spanHandles' = [spanHandles EXCEPT ![s] =
          [state |-> "open", ends |-> 0, id |-> s, traceId |-> traceId,
           parentSpanId |-> parentSpanId, startTime |-> Iso(clock)]]
    /\ UNCHANGED <<clientVars, traceHandles, clock, gwVars>>

\* TraceHandle.span(opts) on handle t
TraceSpan(s, t) ==
    /\ traceHandles[t].state # "none"
    /\ NewSpanHandle(s, traceHandles[t].id, NoSpan)

\* a child constructed without the parentSpanId argument
SpanSpanAsTopLevel(s, parent) ==
    /\ spanHandles[parent].state # "none"
    /\ NewSpanHandle(s, spanHandles[parent].traceId, NoSpan)

\* SpanHandle.span(opts) on handle parent
SpanSpan(s, parent) ==
    /\ spanHandles[parent].state # "none"
    /\ NewSpanHandle(s, spanHandles[parent].traceId, spanHandles[parent].id)

\* a top-level span of some trace
NewSpan(s) == \E t \in TraceHandleIds : TraceSpan(s, t)

\* SpanHandle.end(opts)
EndSpanOf(s, opts) ==
    /\ spanHandles[s].state # "none"
    /\ spanHandles[s].ends < MaxEndCalls
    /\ IF AlreadyEnded(spanHandles[s])
       THEN /\ spanHandles' = [spanHandles EXCEPT ![s].ends = @ + 1]
            /\ UNCHANGED clientVars
       ELSE /\ nextItem < MaxItems
            /\ nextItem' = nextItem + 1
            /\ spanHandles' = [spanHandles EXCEPT ![s].state = "ended", ![s].ends = @ + 1]
            /\ SendSpan([id |-> nextItem + 1, ev |-> "span", h |-> s,
                         data |-> [id             |-> spanHandles[s].id,
                                   trace_id       |-> spanHandles[s].traceId,
                                   parent_span_id |-> spanHandles[s].parentSpanId,
                                   start_time     |-> spanHandles[s].startTime,
                                   end_time       |-> Iso(clock),
                                   status         |-> StatusOrOk(opts.status)]])
            /\ UNCHANGED <<maxBatchSize, flushInterval, timer, timeouts>>
    /\ UNCHANGED <<traceHandles, clock, gwVars>>

\* SpanHandle.end()
EndSpan(s) == EndSpanOf(s, NoOptions)

\* a millisecond passes in the application's process
SdkTick ==
    /\ clock < MaxSdkClock
    /\ clock' = clock + 1
    /\ UNCHANGED <<clientVars, traceHandles, spanHandles, gwVars>>

\* ------------------------------------------------------------------ specification

\* new IngestClient(opts): empty buffers, and the timer armed when flushInterval > 0;
\* no handle constructed yet, of the span handles spans that will be
InitWith(spans) ==
    /\ maxBatchSize \in BatchSizes
    /\ flushInterval \in FlushIntervals
    /\ traceBuffer = <<>>
    /\ spanBuffer = <<>>
    /\ timer = IF flushInterval > 0 THEN "pending" ELSE "null"
    /\ timeouts = IF flushInterval > 0 THEN 1 ELSE 0
    /\ calls = <<>>
    /\ requests = <<>>
    /\ nextItem = 0
    /\ traceHandles = [t \in TraceHandleIds |-> NoTraceHandle]
    /\ spanHandles = [s \in spans |-> NoSpanHandle]
    /\ clock = 0
    /\ now = 0
    /\ wire = {}
    /\ posts = 0
    /\ traceRows = <<>>
    /\ replies = [path \in Routes |-> <<>>]
    /\ spanWire = {}
    /\ spanPosts = 0
    /\ spanRows = <<>>
    /\ rollupRows = <<>>
    /\ inserts = [table \in Tables |-> <<>>]
    /\ reads = 0
    /\ listed = <<>>
    /\ stats = NoStats
    /\ durations = [calls |-> <<>>, avg |-> NoStats]
    /\ conversions = <<>>
    /\ migrationFiles = {}
    /\ schemaMigrations = <<>>
    /\ statementLog = <<>>
    /\ runner = [pc |-> "idle", appliedVersion |-> 0, files |-> <<>>,
                 stmt |-> 0, runs |-> 0, outcome |-> "none"]
    /\ apiKeys = [hash \in KeyHashes |-> "absent"]
    /\ keyCache = [hash \in KeyHashes |-> NoEntry]
    /\ lookups = <<>>
    /\ jsonCalls = <<>>

Init == InitWith(SpanHandleIds)

\* the client under an application that calls it directly
Next ==
    \/ CallSendTrace
    \/ CallSendSpan
    \/ \E k \in SpansArgs : CallSendSpans(k)
    \/ Flush
    \/ Shutdown
    \/ TimerFire
    \/ RequestOk
    \/ RequestFail

Spec == Init /\ [][Next]_vars

\* the client with the timer enabled, under an application that only enqueues:
\* no flush() and no shutdown() call
NextTimer ==
    \/ Len(calls) < MaxCalls /\ CallSendTrace
    \/ Len(calls) < MaxCalls /\ CallSendSpan
    \/ TimerFire
    \/ RequestOk
    \/ RequestFail

\* new IngestClient(opts) with flushInterval > 0
InitTimer == Init /\ flushInterval > 0

\* the event loop runs the timeout that is due, and the transport answers
\* every request
SpecTimer ==
    InitTimer /\ [][NextTimer]_vars
        /\ WF_vars(TimerFire) /\ WF_vars(RequestOk \/ RequestFail)

\* the client under an application that uses the SDK handles; what the
\* network answers plays no part in what the handles hand to the client
NextSdk ==
    \/ \E t \in TraceHandleIds : NewTrace(t)
    \/ \E t \in TraceHandleIds : EndTrace(t)
    \/ \E s \in SpanHandleIds : NewSpan(s)
    \/ \E s \in SpanHandleIds : EndSpan(s)
    \/ Flush
    \/ TimerFire

SpecSdk == Init /\ [][NextSdk]_vars

\* an application that ends its traces with and without a status, while its
\* clock advances; the timer is disabled
NextTraces ==
    \/ \E t \in TraceHandleIds : NewTraceOf(t, TraceOptions)
    \/ \E t \in TraceHandleIds, opts \in EndOptions : EndTraceOf(t, opts)
    \/ \E s \in SpanHandleIds : NewSpan(s)
    \/ \E s \in SpanHandleIds : EndSpan(s)
    \/ SdkTick

\* a client constructed with flushInterval: 0, and no handle yet
InitTraces == Init /\ flushInterval = 0

SpecTraces == InitTraces /\ [][NextTraces]_vars

\* the SpanHandle objects are numbered in the order they are constructed
NextHandle(s) == \A r \in 1..(s - 1) : spanHandles[r].state # "none"

\* an application that builds span trees under its traces while its clock
\* advances; the timer is disabled
NextTree ==
    \/ \E t \in TraceHandleIds : NewTraceOf(t, TraceOptions)
    \/ \E s \in TreeSpanIds, t \in TraceHandleIds : NextHandle(s) /\ TraceSpan(s, t)
    \/ \E s, parent \in TreeSpanIds : NextHandle(s) /\ SpanSpan(s, parent)
    \/ \E s \in TreeSpanIds : EndSpan(s)
    \/ SdkTick

\* a client constructed with flushInterval: 0, and no handle yet
InitTree == InitWith(TreeSpanIds) /\ flushInterval = 0

SpecTree == InitTree /\ [][NextTree]_vars

\* ------------------------------------------------------------------ ingest gateway

\* the project the auth middleware resolved for the request
ProjectId == "p1"

\* the projects that hold an API key
Projects == {"p1", "p2"}

\* a request as its handler sees it: c.get("projectId"), which the auth
\* middleware set from the key, and the body c.req.json() parses
Request(projectId, body) == [projectId |-> projectId, body |-> body]

\* the payload the TraceHandle constructor sends for trace id
OpenPayload(id) ==
    [id |-> id, name |-> "n", start_time |-> Iso(1), end_time |-> Undefined,
     status |-> "undefined", user_id |-> "u", environment |-> "production"]

\* the payload TraceHandle.end({status: "error"}) sends for trace id
ClosePayload(id) ==
    [id |-> id, name |-> "n", start_time |-> Iso(1), end_time |-> Iso(2),
     status |-> "error", user_id |-> "undefined", environment |-> "undefined"]

\* a body that is no trace: an id that is not 32 hex characters, an empty name
BadPayload ==
    [id |-> 0, name |-> "", start_time |-> Iso(1), end_time |-> Undefined,
     status |-> "undefined", user_id |-> "undefined", environment |-> "undefined"]

TracePayloads ==
    {OpenPayload(id) : id \in 1..MaxTraceIds}
        \cup {ClosePayload(id) : id \in 1..MaxTraceIds}
        \cup {BadPayload}

\* a status without .default("ok"): the data as the payload has it
TraceSchemaParseNoDefault(body) ==
    [success |-> /\ body.id >= 1
                 /\ body.name # ""
                 /\ body.start_time.fmt = "iso"
                 /\ body.end_time.fmt \in {"iso", "undefined"}
                 /\ body.status \in {"ok", "error", "undefined"},
     data |-> body]

\* TraceSchema.safeParse(body): success, and the data with status defaulted
TraceSchemaParse(body) ==
    [success |-> /\ body.id >= 1
                 /\ body.name # ""
                 /\ body.start_time.fmt = "iso"
                 /\ body.end_time.fmt \in {"iso", "undefined"}
                 /\ body.status \in {"ok", "error", "undefined"},
     data |-> [body EXCEPT !.status = IF @ = "undefined" THEN "ok" ELSE @]]

\* toChDate(iso): "T" replaced by " " and "Z" removed
ToChDate(iso) == [iso EXCEPT !.fmt = IF @ = "iso" THEN "ch" ELSE @]

\* the version of a trace row: Date.now() when the handler builds the row
RowVersion(t) == now

\* value ?? "": the empty string for a field the payload does not carry
OrEmpty(value) == IF value = "undefined" THEN "" ELSE value

\* the row POST /v1/traces inserts for the parsed trace t of a request of
\* projectId
TraceRow(projectId, t) ==
    [id          |-> t.id,
     project_id  |-> projectId,
     version     |-> RowVersion(t),
     name        |-> t.name,
     start_time  |-> ToChDate(t.start_time),
     end_time    |-> ToChDate(IF t.end_time = Undefined THEN Iso(0) ELSE t.end_time),
     status      |-> t.status,
     user_id     |-> OrEmpty(t.user_id),
     environment |-> OrEmpty(t.environment)]

\* the answer c.json(..., status) to the request that carried body
Reply(path, body, status) == [path |-> path, body |-> body, status |-> status]

\* the log of route path with the answer to body added
Replied(path, body, status) ==
    [replies EXCEPT ![path] = Append(@, Reply(path, body, status))]

\* the log of table with a clickhouse.insert of n values added
Inserted(table, n) == [inserts EXCEPT ![table] = Append(@, n)]

\* a client sends body to POST /v1/traces with a key of projectId
SendPostFor(projectId, body) ==
    /\ posts < MaxPosts
    /\ Request(projectId, body) \notin wire
    /\ posts' = posts + 1
    /\ wire' = wire \cup {Request(projectId, body)}
    /\ UNCHANGED <<now, traceRows, replies, storeVars, readVars, serverVars, clientVars, sdkVars>>

\* a client of the one project sends body to POST /v1/traces
SendPost(body) == SendPostFor(ProjectId, body)

\* ingestRoutes.post("/traces"): 400 for a body that does not parse, else one
\* row inserted and 202. The requests in transit are handled in any order.
PostTracesFor(projectId, body) ==
    LET parsed == TraceSchemaParse(body)
    IN  /\ Request(projectId, body) \in wire
        /\ wire' = wire \ {Request(projectId, body)}
        /\ IF ~parsed.success
           THEN /\ replies' = Replied("/traces", body, 400)
                /\ UNCHANGED <<traceRows, inserts>>
           ELSE /\ traceRows' = Append(traceRows, TraceRow(projectId, parsed.data))
                /\ inserts' = Inserted("breadcrumb.traces", 1)
                /\ replies' = Replied("/traces", body, 202)
        /\ UNCHANGED <<now, posts, spanWire, spanPosts, spanRows, rollupRows,
                       readVars, serverVars, clientVars, sdkVars>>

\* the route handling a request of the one project
PostTraces(body) == PostTracesFor(ProjectId, body)

\* a millisecond passes on the gateway
Tick ==
    /\ now < MaxClock
    /\ now' = now + 1
    /\ UNCHANGED <<wire, posts, traceRows, replies, storeVars, readVars, serverVars,
                   clientVars, sdkVars>>

\* the gateway starts with no row stored; the clients are other processes
InitGateway == Init /\ flushInterval = 0

\* ------------------------------------------------------------------ span ingestion

\* A cost in USD is a decimal amount, held as its number of tenths of a
\* micro-dollar: 0.000066 is 660. JSON.parse gives toMicroDollars the IEEE 754
\* double nearest to it, and usd * 1_000_000 is a product of doubles. Numbers
\* wider than an integer of the model are sequences of digits of base 128,
\* most significant first.

RECURSIVE Digits(_)
\* the digits of the natural number n
Digits(n) == IF n = 0 THEN <<>> ELSE Append(Digits(n \div 128), n % 128)

RECURSIVE Value(_)
\* the natural number the digits stand for
Value(digits) ==
    IF digits = <<>> THEN 0
    ELSE 128 * Value(SubSeq(digits, 1, Len(digits) - 1)) + digits[Len(digits)]

\* the binary digit of weight 2^p
BitAt(digits, p) ==
    IF p < 0 \/ p \div 7 >= Len(digits) THEN 0
    ELSE (digits[Len(digits) - p \div 7] \div 2^(p % 7)) % 2

\* the number of binary digits, leading zeros not counted
BitLen(digits) ==
    IF \A p \in 0..(7 * Len(digits)) : BitAt(digits, p) = 0 THEN 0
    ELSE 1 + CHOOSE p \in 0..(7 * Len(digits)) :
                /\ BitAt(digits, p) = 1
                /\ \A q \in (p + 1)..(7 * Len(digits)) : BitAt(digits, q) = 0

\* floor(digits / 2^s)
Shifted(digits, s) ==
    LET n == (BitLen(digits) - s + 6) \div 7
    IN  [j \in 1..(IF n > 0 THEN n ELSE 0) |->
            LET p == s + 7 * (n - j)
            IN  BitAt(digits, p) + 2 * BitAt(digits, p + 1)
                + 4 * BitAt(digits, p + 2) + 8 * BitAt(digits, p + 3)
                + 16 * BitAt(digits, p + 4) + 32 * BitAt(digits, p + 5)
                + 64 * BitAt(digits, p + 6)]

RECURSIVE Incremented(_)
\* digits + 1
Incremented(digits) ==
    IF digits = <<>> THEN <<1>>
    ELSE IF digits[Len(digits)] < 127
         THEN [digits EXCEPT ![Len(digits)] = @ + 1]
         ELSE Append(Incremented(SubSeq(digits, 1, Len(digits) - 1)), 0)

\* A double is [digits, exp], the value digits * 2^exp with digits below 2^53
\* (or 2^53 itself). Round to nearest, ties to even: the double nearest to
\* digits * 2^exp, where sticky says the exact value lies above digits * 2^exp
Rounded(digits, exp, sticky) ==
    LET drop == BitLen(digits) - 53
    IN  IF drop <= 0 THEN [digits |-> digits, exp |-> exp]
        ELSE LET kept  == Shifted(digits, drop)
                 guard == BitAt(digits, drop - 1)
                 rest  == sticky \/ \E p \in 0..(drop - 2) : BitAt(digits, p) = 1
                 up    == guard = 1 /\ (rest \/ BitAt(digits, drop) = 1)
             IN  [digits |-> IF up THEN Incremented(kept) ELSE kept,
                  exp    |-> exp + drop]

RECURSIVE Quotient(_, _, _)
\* long division of the digits num by d < 2^24, rem the remainder so far
Quotient(rem, num, d) ==
    IF num = <<>> THEN [digits |-> <<>>, rem |-> rem]
    ELSE LET r    == 128 * rem + Head(num)
             rest == Quotient(r % d, Tail(num), d)
         IN  [digits |-> <<r \div d>> \o rest.digits, rem |-> rest.rem]

\* the double nearest to the decimal amount usd * 10^-7: usd * 2^84 / 10^7,
\* rounded, times 2^-84
DoubleOf(usd) ==
    LET q == Quotient(0, Digits(usd) \o [i \in 1..12 |-> 0], 10000000)
    IN  Rounded(q.digits, -84, q.rem # 0)

RECURSIVE TimesDigits(_, _, _)
\* digits * c + carry, for c < 2^23
TimesDigits(digits, c, carry) ==
    IF digits = <<>> THEN Digits(carry)
    ELSE LET v == digits[Len(digits)] * c + carry
         IN  Append(TimesDigits(SubSeq(digits, 1, Len(digits) - 1), c, v \div 128),
                    v % 128)

\* x * c, a product of doubles
Times(x, c) == Rounded(TimesDigits(x.digits, c, 0), x.exp, FALSE)

\* Math.round(x) for x >= 0: the integer nearest to x, the upper one of two
MathRound(x) ==
    IF x.exp >= 0 THEN Value(x.digits) * 2^x.exp
    ELSE Value(Shifted(x.digits, -x.exp)) + BitAt(x.digits, -x.exp - 1)

\* the decimal amounts the requests of the model carry as a cost: up to 5
\* micro-dollars in steps of a tenth, the costs of the gateway's tests
\* (0.000066, 0.00015), 0.0001245 and 0.0078125
Amounts == 0..50 \cup {660, 1245, 1500, 78125}

\* toMicroDollars over Amounts: 0 for an absent or zero cost, else
\* Math.round(usd * 1_000_000)
MicroDollars ==
    [usd \in Amounts |->
        IF usd = 0 THEN 0 ELSE MathRound(Times(DoubleOf(usd), 1000000))]

\* toMicroDollars(usd)
ToMicroDollars(usd) == MicroDollars[usd]

\* a span as SpanHandle.end() sends it: span id, the trace it belongs to, its
\* end time, and the tokens and cost of an LLM call
SpanPayload(id, trace_id, end, tokens) ==
    [id |-> id, trace_id |-> trace_id, name |-> "s", type |-> "llm",
     start_time |-> Iso(1), end_time |-> Iso(end),
     input_tokens |-> tokens, output_tokens |-> tokens + 1,
     input_cost_usd |-> 10 * tokens + 4, output_cost_usd |-> 10 * tokens + 15]

\* an element that is no span: an id that is not 16 hex characters, an unknown type
BadSpan ==
    [id |-> 0, trace_id |-> 1, name |-> "s", type |-> "unknown-type",
     start_time |-> Iso(1), end_time |-> Iso(2),
     input_tokens |-> 0, output_tokens |-> 0,
     input_cost_usd |-> 0, output_cost_usd |-> 0]

\* the bodies sent to POST /v1/spans: one span object, an array of spans of two
\* traces, an array whose second element is invalid, and an invalid object
SpanBodies ==
    {[array |-> FALSE, items |-> <<SpanPayload(1, 1, 3, 2)>>],
     [array |-> TRUE,  items |-> <<SpanPayload(2, 1, 2, 1), SpanPayload(3, 2, 3, 3)>>],
     [array |-> TRUE,  items |-> <<SpanPayload(4, 1, 3, 1), BadSpan>>],
     [array |-> FALSE, items |-> <<BadSpan>>]}

\* SpanSchema.safeParse(item)
SpanSchemaParse(item) ==
    [success |-> /\ item.id >= 1
                 /\ item.trace_id >= 1
                 /\ item.name # ""
                 /\ item.type \in {"llm", "tool", "retrieval", "chain", "custom"}
                 /\ item.start_time.fmt = "iso"
                 /\ item.end_time.fmt = "iso"
                 /\ item.input_tokens >= 0
                 /\ item.output_tokens >= 0,
     data |-> item]

\* the row POST /v1/spans builds for the parsed span s of a request of
\* projectId
SpanRow(projectId, s) ==
    [id              |-> s.id,
     trace_id        |-> s.trace_id,
     project_id      |-> projectId,
     start_time      |-> ToChDate(s.start_time),
     end_time        |-> ToChDate(s.end_time),
     input_tokens    |-> s.input_tokens,
     output_tokens   |-> s.output_tokens,
     input_cost_usd  |-> ToMicroDollars(s.input_cost_usd),
     output_cost_usd |-> ToMicroDollars(s.output_cost_usd)]

\* a loop that stops after the first element
SpanRowsOfFirst(projectId, raw) ==
    IF raw = <<>> \/ ~SpanSchemaParse(Head(raw)).success
    THEN [success |-> raw = <<>>, spans |-> <<>>]
    ELSE [success |-> TRUE,
          spans   |-> <<SpanRow(projectId, SpanSchemaParse(Head(raw)).data)>>]

\* a loop that skips the elements that do not parse and stores the others
SpanRowsOfValid(projectId, raw) ==
    LET valid == SelectSeq(raw, LAMBDA item : SpanSchemaParse(item).success)
    IN  [success |-> TRUE,
         spans   |-> [i \in 1..Len(valid) |->
                         SpanRow(projectId, SpanSchemaParse(valid[i]).data)]]

RECURSIVE SpanRowsOf(_, _)
\* the loop of POST /v1/spans over raw: the rows pushed, and success FALSE from
\* the first element that does not parse on
SpanRowsOf(projectId, raw) ==
    IF raw = <<>> THEN [success |-> TRUE, spans |-> <<>>]
    ELSE LET parsed == SpanSchemaParse(Head(raw))
             rest   == SpanRowsOf(projectId, Tail(raw))
         IN  IF ~parsed.success THEN [success |-> FALSE, spans |-> <<>>]
             ELSE [success |-> rest.success,
                   spans   |-> IF rest.success
                               THEN <<SpanRow(projectId, parsed.data)>> \o rest.spans
                               ELSE <<>>]

\* spans_to_rollups: the trace_rollups row the materialized view selects from
\* one inserted span row
RollupOfSpan(row) ==
    [project_id      |-> row.project_id,
     trace_id        |-> row.trace_id,
     input_tokens    |-> row.input_tokens,
     output_tokens   |-> row.output_tokens,
     input_cost_usd  |-> row.input_cost_usd,
     output_cost_usd |-> row.output_cost_usd,
     span_count      |-> 1,
     max_end_time    |-> row.end_time]

\* a client sends body to POST /v1/spans with a key of projectId
SendSpansPostFor(projectId, body) ==
    /\ spanPosts < MaxSpanPosts
    /\ Request(projectId, body) \notin spanWire
    /\ spanPosts' = spanPosts + 1
    /\ spanWire' = spanWire \cup {Request(projectId, body)}
    /\ UNCHANGED <<now, wire, posts, traceRows, replies, spanRows, rollupRows,
                   inserts, readVars, serverVars, clientVars, sdkVars>>

\* a client of the one project sends body to POST /v1/spans
SendSpansPost(body) == SendSpansPostFor(ProjectId, body)

\* ingestRoutes.post("/spans"): 400 at the first element that does not parse,
\* else one insert of every row, which the materialized view copies into
\* trace_rollups, and 202
PostSpansFor(projectId, body) ==
    LET built == SpanRowsOf(projectId, body.items)
    IN  /\ Request(projectId, body) \in spanWire
        /\ spanWire' = spanWire \ {Request(projectId, body)}
        /\ IF ~built.success
           THEN /\ replies' = Replied("/spans", body, 400)
                /\ UNCHANGED <<spanRows, rollupRows, inserts>>
           ELSE /\ spanRows' = spanRows \o built.spans
                /\ rollupRows' = rollupRows \o
                      [i \in 1..Len(built.spans) |-> RollupOfSpan(built.spans[i])]
                /\ inserts' = Inserted("breadcrumb.spans", Len(built.spans))
                /\ replies' = Replied("/spans", body, 202)
        /\ UNCHANGED <<now, wire, posts, traceRows, spanPosts, readVars, serverVars,
                       clientVars, sdkVars>>

\* the route handling a request of the one project
PostSpans(body) == PostSpansFor(ProjectId, body)

\* ------------------------------------------------------------------ background merges

\* ReplacingMergeTree(version): of two rows of one (project_id, id) the merge
\* keeps the one with the higher version, and of equal versions the one
\* inserted last
Replaced(rows, i, j) ==
    LET drop == IF rows[i].version > rows[j].version THEN j ELSE i
    IN  [k \in 1..(Len(rows) - 1) |-> IF k < drop THEN rows[k] ELSE rows[k + 1]]

\* a background merge of breadcrumb.traces meets rows i and j of one key
Compact(i, j) ==
    /\ i < j
    /\ traceRows[i].project_id = traceRows[j].project_id
    /\ traceRows[i].id = traceRows[j].id
    /\ traceRows' = Replaced(traceRows, i, j)
    /\ UNCHANGED <<now, wire, posts, replies, storeVars, readVars, serverVars, clientVars, sdkVars>>

Max(a, b) == IF a >= b THEN a ELSE b

\* SimpleAggregateFunction(max, ...) in place of sum
CombinedByMax(a, b) ==
    [a EXCEPT !.input_tokens    = Max(@, b.input_tokens),
              !.output_tokens   = Max(@, b.output_tokens),
              !.input_cost_usd  = Max(@, b.input_cost_usd),
              !.output_cost_usd = Max(@, b.output_cost_usd),
              !.span_count      = Max(@, b.span_count),
              !.max_end_time    = IF b.max_end_time.ms > @.ms THEN b.max_end_time ELSE @]

\* AggregatingMergeTree: two rows of one (project_id, trace_id) combined by the
\* SimpleAggregateFunction of each column, sum or max
Combined(a, b) ==
    [a EXCEPT !.input_tokens    = @ + b.input_tokens,
              !.output_tokens   = @ + b.output_tokens,
              !.input_cost_usd  = @ + b.input_cost_usd,
              !.output_cost_usd = @ + b.output_cost_usd,
              !.span_count      = @ + b.span_count,
              !.max_end_time    = IF b.max_end_time.ms > @.ms THEN b.max_end_time ELSE @]

\* a background merge of breadcrumb.trace_rollups meets rows i and j of one key
MergeRollups(i, j) ==
    /\ i < j
    /\ rollupRows[i].project_id = rollupRows[j].project_id
    /\ rollupRows[i].trace_id = rollupRows[j].trace_id
    /\ rollupRows' =
          [k \in 1..(Len(rollupRows) - 1) |->
              IF k = i THEN Combined(rollupRows[i], rollupRows[j])
              ELSE IF k < j THEN rollupRows[k] ELSE rollupRows[k + 1]]
    /\ UNCHANGED <<now, wire, posts, traceRows, replies, spanWire, spanPosts,
                   spanRows, inserts, readVars, serverVars, clientVars, sdkVars>>

\* ------------------------------------------------------------------ read paths

\* a NULL of a Nullable column, null in a result row
Null == [ms |-> 0, fmt |-> "null"]

\* a duration that is not known: null
NullDuration == [known |-> FALSE, ms |-> 0]

\* end minus start whatever its sign
CalcDurationUnchecked(startTime, endTime) ==
    IF endTime = Null THEN NullDuration
    ELSE [known |-> TRUE, ms |-> endTime.ms - startTime.ms]

\* d >= 0 in place of d > 0
CalcDurationNonNegative(startTime, endTime) ==
    IF endTime = Null THEN NullDuration
    ELSE LET d == endTime.ms - startTime.ms
         IN  IF d >= 0 THEN [known |-> TRUE, ms |-> d] ELSE NullDuration

\* calcDuration(startTime, endTime)
CalcDuration(startTime, endTime) ==
    IF endTime = Null THEN NullDuration
    ELSE LET d == endTime.ms - startTime.ms
         IN  IF d > 0 THEN [known |-> TRUE, ms |-> d] ELSE NullDuration

\* the groups of FROM breadcrumb.traces WHERE project_id = {projectId: UUID}
\* GROUP BY id
TraceKeysFor(projectId) ==
    {traceRows[i].id : i \in {k \in 1..Len(traceRows) :
                                 traceRows[k].project_id = projectId}}

\* the (project_id, id) groups the one project reads
TraceKeys == TraceKeysFor(ProjectId)

\* the rows of trace id of projectId whose version is the maximum of the group
MaxVersionRowsFor(projectId, id) ==
    {i \in 1..Len(traceRows) :
        /\ traceRows[i].project_id = projectId
        /\ traceRows[i].id = id
        /\ \A j \in 1..Len(traceRows) :
              (traceRows[j].project_id = projectId /\ traceRows[j].id = id)
                  => traceRows[j].version <= traceRows[i].version}

\* the rows of trace id whose version is the maximum of the group
MaxVersionRows(id) == MaxVersionRowsFor(ProjectId, id)

\* argMax(column, version) ... GROUP BY id: for each trace the row that gives
\* every column its value; among rows of equal maximum version, whichever the
\* read meets first
ArgMaxRowsFor(projectId) ==
    {f \in [TraceKeysFor(projectId) -> 1..Len(traceRows)] :
        \A id \in TraceKeysFor(projectId) : f[id] \in MaxVersionRowsFor(projectId, id)}

\* the rows the read of the one project may take every column from
ArgMaxRows == ArgMaxRowsFor(ProjectId)

\* what LEFT JOIN gives r.* for a trace without a trace_rollups row: the
\* default value of each column's type
NoRollup ==
    [input_tokens |-> 0, output_tokens |-> 0, input_cost_usd |-> 0,
     output_cost_usd |-> 0, span_count |-> 0, max_end_time |-> ToChDate(Iso(0))]

\* a subquery that leaves out WHERE project_id = {projectId: UUID}
RollupsOfAnyProject(projectId, row) == TRUE

\* ROLLUPS_SUBQUERY: WHERE project_id = {projectId: UUID}
RollupsWhere(projectId, row) == row.project_id = projectId

RECURSIVE RollupFold(_, _, _, _)
\* sum(...), max(max_end_time) over the trace_rollups rows n..1 of trace_id
\* that the subquery of projectId selects
RollupFold(projectId, rows, trace_id, n) ==
    IF n = 0 THEN NoRollup
    ELSE LET acc == RollupFold(projectId, rows, trace_id, n - 1)
             row == rows[n]
         IN  IF RollupsWhere(projectId, row) /\ row.trace_id = trace_id
             THEN [input_tokens    |-> acc.input_tokens + row.input_tokens,
                   output_tokens   |-> acc.output_tokens + row.output_tokens,
                   input_cost_usd  |-> acc.input_cost_usd + row.input_cost_usd,
                   output_cost_usd |-> acc.output_cost_usd + row.output_cost_usd,
                   span_count      |-> acc.span_count + row.span_count,
                   max_end_time    |-> IF row.max_end_time.ms > acc.max_end_time.ms
                                       THEN row.max_end_time ELSE acc.max_end_time]
             ELSE acc

\* ROLLUPS_SUBQUERY / ROLLUPS_JOIN: the row r joined to trace trace_id in a
\* query of projectId
RollupsFor(projectId, trace_id) ==
    RollupFold(projectId, rollupRows, trace_id, Len(rollupRows))

\* the row r joined to trace trace_id of the one project
Rollups(trace_id) == RollupsFor(ProjectId, trace_id)

\* the trace's own end time whatever it holds, and never the spans'
TraceEndOnly(t, r) == t.end_time

\* EFFECTIVE_END: COALESCE(t.end_time, r.max_end_time)
EffectiveEnd(t, r) == IF t.end_time # Null THEN t.end_time ELSE r.max_end_time

\* String(value ?? "") || null: null, written "null", for the empty string
OrNull(value) == IF value = "" THEN "null" ELSE value

\* list_traces: the object built from the result row of the trace whose
\* columns come from traceRows[i]
TraceView(i) ==
    LET t         == traceRows[i]
        r         == RollupsFor(t.project_id, t.id)
        startTime == t.start_time
        endTime   == EffectiveEnd(t, r)
    IN  [id           |-> t.id,
         name         |-> t.name,
         status       |-> t.status,
         startTime    |-> startTime,
         endTime      |-> endTime,
         durationMs   |-> CalcDuration(startTime, endTime),
         userId       |-> OrNull(t.user_id),
         environment  |-> OrNull(t.environment),
         inputTokens  |-> r.input_tokens,
         outputTokens |-> r.output_tokens,
         costUsd      |-> r.input_cost_usd + r.output_cost_usd,
         spanCount    |-> r.span_count]

\* the answers list_traces can give in this state: one per way the reads may
\* resolve the equal versions
ListTracesAnswersFor(projectId) ==
    {[id \in TraceKeysFor(projectId) |-> TraceView(f[id])] :
        f \in ArgMaxRowsFor(projectId)}

\* the answers list_traces can give the one project
ListTracesAnswers == ListTracesAnswersFor(ProjectId)

\* list_traces without filters, and limit above the number of traces, on the
\* server built for the key of projectId
ListTracesFor(projectId) ==
    /\ reads < MaxReads
    /\ reads' = reads + 1
    /\ listed' \in ListTracesAnswersFor(projectId)
    /\ UNCHANGED <<now, wire, posts, traceRows, replies, storeVars, stats,
                   durations, conversions, serverVars, clientVars, sdkVars>>

\* list_traces of the one project
ListTraces == ListTracesFor(ProjectId)

RECURSIVE AvgIf(_)
\* avgIf(end - start, isNotNull(end) AND end > start) over rows: the sum and
\* the number of the values taken
AvgIf(rows) ==
    IF rows = <<>> THEN NoStats
    ELSE LET acc == AvgIf(Tail(rows))
             row == Head(rows)
         IN  IF row.endTime # Null /\ row.endTime.ms > row.startTime.ms
             THEN [sum   |-> acc.sum + (row.endTime.ms - row.startTime.ms),
                   count |-> acc.count + 1]
             ELSE acc

RECURSIVE JoinedRows(_, _)
\* the rows of stats' FROM (...) t LEFT JOIN (...) r, for the traces 1..n
JoinedRows(f, n) ==
    IF n = 0 THEN <<>>
    ELSE JoinedRows(f, n - 1) \o
         (IF n \in TraceKeys
          THEN <<[startTime |-> traceRows[f[n]].start_time,
                  endTime   |-> EffectiveEnd(traceRows[f[n]], Rollups(n))]>>
          ELSE <<>>)

\* the answers stats can give in this state for avg_duration_ms
StatsAnswers == {AvgIf(JoinedRows(f, MaxTraceIds)) : f \in ArgMaxRows}

\* tracesRouter.stats without filters: avgDurationMs
Stats ==
    /\ reads < MaxReads
    /\ reads' = reads + 1
    /\ stats' \in StatsAnswers
    /\ UNCHANGED <<now, wire, posts, traceRows, replies, storeVars, listed,
                   durations, conversions, serverVars, clientVars, sdkVars>>

\* tracesRouter.spans: the object built from one row of breadcrumb.spans
SpanView(row) ==
    [id            |-> row.id,
     startTime     |-> row.start_time,
     endTime       |-> row.end_time,
     inputTokens   |-> row.input_tokens,
     outputTokens  |-> row.output_tokens,
     inputCostUsd  |-> row.input_cost_usd,
     outputCostUsd |-> row.output_cost_usd]

\* the rows of FROM breadcrumb.spans WHERE project_id = {projectId: UUID}
\* AND trace_id = {traceId: String}
SpanRowsReadFor(projectId, trace_id) ==
    {i \in 1..Len(spanRows) :
        spanRows[i].project_id = projectId /\ spanRows[i].trace_id = trace_id}

\* the span rows the one project reads for trace_id
SpanRowsRead(trace_id) == SpanRowsReadFor(ProjectId, trace_id)

\* tracesRouter.spans: the answers the query can give projectId for trace_id,
\* one per order that ORDER BY start_time ASC allows for the rows it selects
SpansAnswersFor(projectId, trace_id) ==
    LET rows == SpanRowsReadFor(projectId, trace_id)
        n    == Cardinality(rows)
    IN  {[k \in 1..n |-> SpanView(spanRows[f[k]])] :
            f \in {g \in [1..n -> rows] :
                      /\ \A a, b \in 1..n : a # b => g[a] # g[b]
                      /\ \A a, b \in 1..n :
                            a < b => spanRows[g[a]].start_time.ms
                                        <= spanRows[g[b]].start_time.ms}}

\* the answers tracesRouter.spans can give the one project for trace_id
SpansAnswers(trace_id) == SpansAnswersFor(ProjectId, trace_id)

\* the timestamps of result rows handed to calcDuration
Timestamps == {ToChDate(Iso(ms)) : ms \in 0..MaxTime}

\* calcDuration(startTime, endTime) on the two columns of a result row
CallCalcDuration(startTime, endTime) ==
    /\ Len(durations.calls) < MaxDurations
    /\ durations' = [durations EXCEPT !.calls =
          Append(@, [startTime  |-> startTime,
                     endTime    |-> endTime,
                     durationMs |-> CalcDuration(startTime, endTime)])]
    /\ UNCHANGED <<now, wire, posts, traceRows, replies, storeVars, reads,
                   listed, stats, conversions, serverVars, clientVars, sdkVars>>

\* the avgIf of stats over the same result rows
CallAvgIf ==
    /\ durations' = [durations EXCEPT !.avg = AvgIf(durations.calls)]
    /\ UNCHANGED <<now, wire, posts, traceRows, replies, storeVars, reads,
                   listed, stats, conversions, serverVars, clientVars, sdkVars>>

\* the read helpers applied to result rows of every shape
NextDuration ==
    \/ \E startTime \in Timestamps, endTime \in Timestamps \cup {Null} :
          CallCalcDuration(startTime, endTime)
    \/ CallAvgIf

SpecDuration == InitGateway /\ [][NextDuration]_vars

\* toMicroDollars(usd) on the cost of a span
CallToMicroDollars(usd) ==
    /\ Len(conversions) < MaxConversions
    /\ conversions' = Append(conversions, [usd |-> usd, micros |-> ToMicroDollars(usd)])
    /\ UNCHANGED <<now, wire, posts, traceRows, replies, storeVars, reads,
                   listed, stats, durations, serverVars, clientVars, sdkVars>>

\* the cost helper applied to every amount
NextConvert == \E usd \in Amounts : CallToMicroDollars(usd)

SpecConvert == InitGateway /\ [][NextConvert]_vars

\* the trace store: the gateway's trace route, time, the background merge of
\* breadcrumb.traces, and list_traces
NextStore ==
    \/ \E body \in TracePayloads : posts < MaxStorePosts /\ SendPost(body)
    \/ \E body \in TracePayloads : PostTraces(body)
    \/ Tick
    \/ \E i, j \in 1..Len(traceRows) : Compact(i, j)
    \/ ListTraces

SpecStore == InitGateway /\ [][NextStore]_vars

\* the open events of the traces
OpenPayloads == {OpenPayload(id) : id \in 1..MaxTraceIds}

\* the span bodies every element of which is a span
ValidSpanBodies == {body \in SpanBodies : SpanRowsOf(ProjectId, body.items).success}

\* traces that are opened and never closed, their spans, the background merge
\* of breadcrumb.trace_rollups, and the read paths
NextRollups ==
    \/ \E body \in OpenPayloads : posts < MaxStorePosts /\ SendPost(body)
    \/ \E body \in OpenPayloads : PostTraces(body)
    \/ \E body \in ValidSpanBodies : SendSpansPost(body)
    \/ \E body \in ValidSpanBodies : PostSpans(body)
    \/ \E i, j \in 1..Len(rollupRows) : MergeRollups(i, j)
    \/ ListTraces
    \/ Stats

SpecRollups == InitGateway /\ [][NextRollups]_vars

\* VALID_SPAN of the gateway's tests: an LLM call of 22 input and 10 output
\* tokens that cost 0.000066 and 0.00015 USD, in trace 1, ending at another
\* time than the trace
TestSpan ==
    [SpanPayload(5, 1, 3, 22) EXCEPT !.output_tokens = 10,
                                     !.input_cost_usd = 660,
                                     !.output_cost_usd = 1500]

\* the requests of one trace's life: its open event, its span, its close event
LifePayloads == {OpenPayload(1), ClosePayload(1)}
LifeSpanBodies == {[array |-> FALSE, items |-> <<TestSpan>>]}

\* one trace from its open event to its close event, and the list read
NextLife ==
    \/ \E body \in LifePayloads : posts < MaxStorePosts /\ SendPost(body)
    \/ \E body \in LifePayloads : PostTraces(body)
    \/ \E body \in LifeSpanBodies : SendSpansPost(body)
    \/ \E body \in LifeSpanBodies : PostSpans(body)
    \/ Tick
    \/ ListTraces

SpecLife == InitGateway /\ [][NextLife]_vars

\* the two routes of the gateway under requests of every shape
NextIngest ==
    \/ \E body \in TracePayloads : posts < MaxStorePosts /\ SendPost(body)
    \/ \E body \in TracePayloads : PostTraces(body)
    \/ \E body \in SpanBodies : SendSpansPost(body)
    \/ \E body \in SpanBodies : PostSpans(body)

SpecIngest == InitGateway /\ [][NextIngest]_vars

\* the gateway under clients that send it trace requests
NextGateway ==
    \/ \E body \in TracePayloads : SendPost(body)
    \/ \E body \in TracePayloads : PostTraces(body)
    \/ Tick

SpecGateway == InitGateway /\ [][NextGateway]_vars

\* ------------------------------------------------------------------ properties

Calls == 1..Len(calls)
Requests == 1..Len(requests)
RequestsOf(c) == {r \in Requests : requests[r].call = c}

\* the ids of the payloads a sequence holds
Ids(payloads) == {payloads[i].id : i \in 1..Len(payloads)}

\* the ids call c detached from the buffers
ItemsOf(c) == Ids(calls[c].traces) \cup Ids(calls[c].spans)

\* the places, among the requests of the calls cs, that carry payload id
Deliveries(cs, id) ==
    UNION {{<<r, i>> : i \in {k \in DOMAIN requests[r].body :
                                  requests[r].body[k].id = id}} :
              r \in {q \in Requests : requests[q].call \in cs}}

Buffered == Ids(traceBuffer) \cup Ids(spanBuffer)

\* a flush() call was made in this step, and it is call Len(calls')
Called(kind) ==
    /\ Len(calls') = Len(calls) + 1
    /\ calls'[Len(calls')].kind = kind

\* C1: of two flush() calls on one client, the items the first one found in the
\* buffers are each carried by exactly one request of the two calls together
C1_ConcurrentFlushOnce ==
    \A i, j \in Calls :
        (i < j /\ calls[i].kind = "flush" /\ calls[j].kind = "flush")
            => \A id \in ItemsOf(i) : Cardinality(Deliveries({i, j}, id)) = 1

\* two flush() calls, the second made while the requests of the first, which
\* found two items, are in flight
C1_Witness ==
    /\ Len(calls) >= 2
    /\ calls[1].kind = "flush" /\ calls[2].kind = "flush"
    /\ calls[1].st = "pending"
    /\ Cardinality(ItemsOf(1)) = 2
    /\ \A r \in RequestsOf(1) : requests[r].st = "inflight"

\* C2: whatever the interleaving of enqueues, explicit, timer and size-threshold
\* flushes, no payload is carried by more than one place of the requests issued
C2_AtMostOneDelivery ==
    \A id \in 1..nextItem : Cardinality(Deliveries(Calls, id)) <= 1

\* a size-threshold flush, a timer flush and an explicit flush met in one run
C2_Witness ==
    /\ \E c \in Calls : calls[c].kind = "auto" /\ Cardinality(ItemsOf(c)) >= 2
    /\ \E c \in Calls : calls[c].kind = "timer" /\ ItemsOf(c) # {}
    /\ \E c \in Calls : calls[c].kind = "flush"

\* the promise of the shutdown() call c resolves in this step
ShutdownResolves(c) ==
    /\ calls[c].kind = "shutdown"
    /\ calls[c].st = "pending"
    /\ calls'[c].st = "resolved"

\* C3 as stated: when shutdown() resolves, every item buffered at the call has
\* been transmitted and both buffers are empty
C3_ShutdownLeavesBuffersEmpty ==
    [][\A c \in Calls : ShutdownResolves(c) =>
          /\ \A id \in ItemsOf(c) : Deliveries({c}, id) # {}
          /\ traceBuffer' = <<>> /\ spanBuffer' = <<>>]_vars

\* C3 amended: every item buffered when shutdown() is called goes into a request
\* of that call, and when shutdown() resolves each request of the call has
\* succeeded and none of those items is buffered; the buffers then hold only
\* items enqueued after the call
C3_ShutdownDrains ==
    [][/\ Called("shutdown") =>
            /\ Buffered \subseteq
                 {id \in 1..nextItem :
                    \E r \in 1..Len(requests') :
                       /\ requests'[r].call = Len(calls')
                       /\ id \in Ids(requests'[r].body)}
            /\ traceBuffer' = <<>> /\ spanBuffer' = <<>>
       /\ \A c \in Calls : ShutdownResolves(c) =>
            /\ \A r \in RequestsOf(c) : requests'[r].st = "ok"
            /\ \A id \in ItemsOf(c) :
                  /\ Deliveries({c}, id) # {}
                  /\ id \notin Ids(traceBuffer') \cup Ids(spanBuffer')]_vars

\* a shutdown() that sent two requests has resolved while an item enqueued after
\* the call is still buffered
C3_Witness ==
    \E c \in Calls :
        /\ calls[c].kind = "shutdown"
        /\ calls[c].st = "resolved"
        /\ Cardinality(RequestsOf(c)) = 2
        /\ Buffered # {}

\* C4: once shutdown() has been called, no timer-triggered flush is started
C4_NoTimerFlushAfterShutdown ==
    [][(\E c \in Calls : calls[c].kind = "shutdown") => ~Called("timer")]_vars

FailedOf(c) == {r \in RequestsOf(c) : requests[r].st = "failed"}

\* C5: a flush() or shutdown() call one of whose requests failed has rejected to
\* its caller, and onError was not invoked for it
C5_ExplicitFailurePropagates ==
    \A c \in Calls :
        calls[c].kind \in Explicit =>
            /\ calls[c].onErr = 0
            /\ calls[c].st # "reported"
            /\ FailedOf(c) # {} => calls[c].st = "thrown"

\* a flush() and a shutdown() have both rejected, one of them with another of
\* its requests having succeeded
C5_Witness ==
    /\ \E c \in Calls : calls[c].kind = "flush" /\ calls[c].st = "thrown"
    /\ \E c \in Calls : calls[c].kind = "shutdown" /\ calls[c].st = "thrown"
    /\ \E c \in Calls :
          /\ calls[c].kind \in Explicit
          /\ FailedOf(c) # {}
          /\ \E r \in RequestsOf(c) : requests[r].st = "ok"

\* C6: a background flush one of whose requests failed was reported to onError
\* exactly once and never rejected to a caller, and the step in which a timer
\* flush fails sets the next timeout
C6_BackgroundFailureReported ==
    /\ [](\A c \in Calls :
            calls[c].kind \in Background =>
                /\ calls[c].st # "thrown"
                /\ calls[c].onErr = (IF FailedOf(c) # {} THEN 1 ELSE 0)
                /\ FailedOf(c) # {} => calls[c].st = "reported")
    /\ [][\A c \in Calls :
            (calls[c].kind = "timer" /\ calls[c].st = "pending"
                /\ calls'[c].st = "reported")
              => (timer' = "pending" /\ timeouts' = timeouts + 1)]_vars

\* a size-threshold flush with two failed requests and a timer flush with a
\* failed request, and the timer pending again
C6_Witness ==
    /\ \E c \in Calls : calls[c].kind = "auto" /\ Cardinality(FailedOf(c)) = 2
    /\ \E c \in Calls : calls[c].kind = "timer" /\ calls[c].st = "reported"
    /\ timer = "pending"

\* C7 as stated: a flush() made after a flush() has rejected carries the items
\* whose transmission failed
C7_FlushRetriesFailedItems ==
    [][Called("flush") =>
         \A c \in Calls :
            (calls[c].kind = "flush" /\ calls[c].st = "thrown") =>
               \A r \in FailedOf(c) :
                  Ids(requests[r].body) \subseteq
                     {id \in 1..nextItem :
                        \E q \in 1..Len(requests') :
                           /\ requests'[q].call = Len(calls')
                           /\ id \in Ids(requests'[q].body)}]_vars

\* C7 amended: the items of a flush() that rejected are in neither buffer and
\* no request of a later call carries them: a retry is the caller's to make, by
\* enqueueing them again
C7_RejectedItemsNotResent ==
    \A c \in Calls :
        (calls[c].kind = "flush" /\ calls[c].st = "thrown") =>
            \A id \in ItemsOf(c) :
                /\ id \notin Buffered
                /\ Deliveries(Calls \ {c}, id) = {}
                /\ Deliveries({c}, id) # {}

\* a flush() has rejected and a flush() made after it has sent a request
C7_Witness ==
    \E c, d \in Calls :
        /\ c < d
        /\ calls[c].kind = "flush" /\ calls[c].st = "thrown"
        /\ calls[d].kind = "flush" /\ RequestsOf(d) # {}
        /\ \E r \in RequestsOf(d) : requests[r].st = "ok"

\* the requests of call c to path, in the order they were issued
RequestsTo(c, path) ==
    SelectSeq(requests, LAMBDA q : q.call = c /\ q.path = path)

\* C8: a flush that detached t traces and s spans has issued t requests to
\* /v1/traces, the i-th carrying the i-th trace alone, and to /v1/spans one
\* request carrying the s spans as an array when s > 0 and none when s = 0
C8_RequestShape ==
    \A c \in Calls :
        LET t  == Len(calls[c].traces)
            s  == Len(calls[c].spans)
            tr == RequestsTo(c, "/v1/traces")
            sp == RequestsTo(c, "/v1/spans")
        IN  /\ Len(tr) = t
            /\ \A i \in 1..t : ~tr[i].array /\ tr[i].body = <<calls[c].traces[i]>>
            /\ Len(sp) = (IF s > 0 THEN 1 ELSE 0)
            /\ s > 0 => (sp[1].array /\ sp[1].body = calls[c].spans)
            /\ Cardinality(RequestsOf(c)) = t + (IF s > 0 THEN 1 ELSE 0)

\* a flush of two traces and a span, and a flush of empty buffers
C8_Witness ==
    /\ \E c \in Calls : Len(calls[c].traces) = 2 /\ Len(calls[c].spans) = 1
    /\ \E c \in Calls :
          calls[c].traces = <<>> /\ calls[c].spans = <<>> /\ RequestsOf(c) = {}

\* the payloads handed to sendTrace and sendSpan so far: buffered or detached
RECURSIVE Handed(_)
Handed(n) ==
    IF n = 0 THEN Range(traceBuffer) \cup Range(spanBuffer)
    ELSE Range(calls[n].traces) \cup Range(calls[n].spans) \cup Handed(n - 1)

CloseEvents(ev, h) == {p \in Handed(Len(calls)) : p.ev = ev /\ p.h = h}

\* C9: a handle on which end() was called one or more times has handed the
\* client exactly one close event, and a handle not yet ended none
C9_EndIdempotent ==
    /\ \A t \in TraceHandleIds :
          Cardinality(CloseEvents("close", t))
              = (IF traceHandles[t].ends >= 1 THEN 1 ELSE 0)
    /\ \A s \in SpanHandleIds :
          Cardinality(CloseEvents("span", s))
              = (IF spanHandles[s].ends >= 1 THEN 1 ELSE 0)

\* end() was called twice on a TraceHandle and twice on a SpanHandle
C9_Witness ==
    /\ \E t \in TraceHandleIds : traceHandles[t].ends = 2
    /\ \E s \in SpanHandleIds : spanHandles[s].ends = 2

Rows == 1..Len(traceRows)

\* a row written for an open event: the end_time the gateway stores for none
IsOpenRow(row) == row.end_time = ToChDate(Iso(0))

\* C10: of two rows of one trace, one written for its open event and one for
\* its close event, the close row has the strictly greater version
C10_CloseVersionGreater ==
    \A i, j \in Rows :
        (/\ traceRows[i].id = traceRows[j].id
         /\ IsOpenRow(traceRows[i])
         /\ ~IsOpenRow(traceRows[j]))
            => traceRows[j].version > traceRows[i].version

\* the stored rows of trace id written for its open event
OpenRows(id) == {i \in Rows : traceRows[i].id = id /\ IsOpenRow(traceRows[i])}

\* the stored rows of trace id written for its close event
CloseRows(id) == {i \in Rows : traceRows[i].id = id /\ ~IsOpenRow(traceRows[i])}

\* C11: a trace of which an open row and a close row are stored is listed, by
\* every answer the read can give, with the close event's end_time and status,
\* in whatever order the gateway handled the two requests
C11_CloseEventShown ==
    \A id \in TraceKeys :
        (OpenRows(id) # {} /\ CloseRows(id) # {}) =>
            \A answer \in ListTracesAnswers :
                /\ answer[id].endTime = ToChDate(ClosePayload(id).end_time)
                /\ answer[id].status = ClosePayload(id).status

\* the columns of stored row i that list_traces returns
Carried(i) ==
    [id |-> traceRows[i].id, name |-> traceRows[i].name,
     status |-> traceRows[i].status, startTime |-> traceRows[i].start_time,
     endTime |-> traceRows[i].end_time]

\* the same columns of a listed trace
Shown(view) ==
    [id |-> view.id, name |-> view.name, status |-> view.status,
     startTime |-> view.startTime, endTime |-> view.endTime]

\* C12: every trace is listed with the columns of a stored row that has the
\* maximum version of its key, and the stored rows allow one answer only,
\* whatever the order in which they are stored or read
C12_OneLatestState ==
    /\ \A answer \in ListTracesAnswers : \A id \in TraceKeys :
          \E i \in MaxVersionRows(id) : Shown(answer[id]) = Carried(i)
    /\ Cardinality(ListTracesAnswers) = 1

\* C13: a background merge of breadcrumb.traces, whenever it runs, leaves the
\* answers the read can give as they were
C13_CompactionKeepsView ==
    [][(\E i, j \in Rows : Compact(i, j)) => ListTracesAnswers' = ListTracesAnswers]_vars

\* the stored span rows of trace trace_id
SpansOf(trace_id) ==
    {i \in 1..Len(spanRows) :
        spanRows[i].project_id = ProjectId /\ spanRows[i].trace_id = trace_id}

RECURSIVE SumOf(_, _)
\* the sum of f over the set S
SumOf(f, S) ==
    IF S = {} THEN 0
    ELSE LET x == CHOOSE x \in S : TRUE
         IN  f[x] + SumOf(f, S \ {x})

\* C14: for every trace the rollup a query folds from trace_rollups is the sum,
\* the count and the maximum over the trace's stored span rows, whichever
\* partial rows the background merge has combined, and list_traces shows it
C14_RollupIsFoldOfSpans ==
    \A id \in 1..MaxTraceIds :
        LET S == SpansOf(id)
            r == Rollups(id)
        IN  /\ r.input_tokens = SumOf([i \in S |-> spanRows[i].input_tokens], S)
            /\ r.output_tokens = SumOf([i \in S |-> spanRows[i].output_tokens], S)
            /\ r.input_cost_usd = SumOf([i \in S |-> spanRows[i].input_cost_usd], S)
            /\ r.output_cost_usd = SumOf([i \in S |-> spanRows[i].output_cost_usd], S)
            /\ r.span_count = Cardinality(S)
            /\ S # {} =>
                  /\ \E i \in S : r.max_end_time = spanRows[i].end_time
                  /\ \A i \in S : spanRows[i].end_time.ms <= r.max_end_time.ms
            /\ \A answer \in ListTracesAnswers :
                  id \in TraceKeys =>
                      /\ answer[id].inputTokens = r.input_tokens
                      /\ answer[id].outputTokens = r.output_tokens
                      /\ answer[id].costUsd = r.input_cost_usd + r.output_cost_usd
                      /\ answer[id].spanCount = r.span_count

\* a trace with two stored spans of different tokens and end times, written by
\* two requests, has had partial rollup rows merged and has been listed
C14_Witness ==
    /\ Cardinality(SpansOf(1)) = 2
    /\ \E i, j \in SpansOf(1) : spanRows[i].end_time.ms < spanRows[j].end_time.ms
    /\ Len(inserts["breadcrumb.spans"]) = 2
    /\ Len(rollupRows) < Len(spanRows)
    /\ 1 \in DOMAIN listed
    /\ listed[1].spanCount = 2

\* the calcDuration invocations whose result is a number
KnownCalls(n) == {i \in 1..n : durations.calls[i].durationMs.known}

\* C15: calcDuration answers null when the end time is null, equal to or
\* earlier than the start time, and end minus start otherwise, so never zero
\* or a negative number; and the average taken over result rows is the sum over
\* the rows of known duration divided by their number
C15_DurationKnownOrNull ==
    /\ [](\A i \in 1..Len(durations.calls) :
            LET c == durations.calls[i]
            IN  IF c.endTime = Null \/ c.endTime.ms <= c.startTime.ms
                THEN c.durationMs = NullDuration
                ELSE /\ c.durationMs.known
                     /\ c.durationMs.ms = c.endTime.ms - c.startTime.ms
                     /\ c.durationMs.ms > 0)
    /\ [][CallAvgIf =>
            LET n == Len(durations.calls)
            IN  /\ durations'.avg.count = Cardinality(KnownCalls(n))
                /\ durations'.avg.sum =
                      SumOf([i \in KnownCalls(n) |-> durations.calls[i].durationMs.ms],
                            KnownCalls(n))]_vars

\* calcDuration was handed a row that ends when it starts and a row that ends
\* later, and the average was taken over the two
C15_Witness ==
    /\ \E i \in 1..Len(durations.calls) :
          /\ durations.calls[i].endTime = durations.calls[i].startTime
          /\ ~durations.calls[i].durationMs.known
    /\ \E i \in 1..Len(durations.calls) :
          /\ durations.calls[i].durationMs.known
          /\ durations.calls[i].durationMs.ms = 2
    /\ durations.avg = [sum |-> 2, count |-> 1]

\* the latest end time among the stored spans of trace id
MaxSpanEnd(id) ==
    CHOOSE ms \in {spanRows[i].end_time.ms : i \in SpansOf(id)} :
        \A i \in SpansOf(id) : spanRows[i].end_time.ms <= ms

\* C16: a trace that was opened through the gateway and never closed, with a
\* stored span that ends after the trace starts, is listed with the duration
\* max(span.end_time) - start_time
C16_SpanDerivedDuration ==
    \A answer \in ListTracesAnswers : \A id \in TraceKeys :
        (/\ OpenRows(id) # {}
         /\ CloseRows(id) = {}
         /\ SpansOf(id) # {}
         /\ MaxSpanEnd(id) > answer[id].startTime.ms)
            => /\ answer[id].durationMs.known
               /\ answer[id].durationMs.ms = MaxSpanEnd(id) - answer[id].startTime.ms
               /\ answer[id].endTime.ms = MaxSpanEnd(id)

\* the gateway answers the trace request body with 202 in this step
Accepted(body) == PostTraces(body) /\ TraceSchemaParse(body).success

\* C17: the row the gateway stores for a trace payload without end_time has a
\* NULL end_time, never the epoch, and the row stored for a payload with an
\* end_time has that end_time, converted
C17_NullEndTimeStored ==
    [][\A body \in TracePayloads :
          Accepted(body) =>
             /\ Len(traceRows') = Len(traceRows) + 1
             /\ traceRows'[Len(traceRows')].end_time =
                   (IF body.end_time = Undefined THEN Null
                    ELSE ToChDate(body.end_time))]_vars

\* the traces of which only open rows are stored, and those of them with spans
OpenOnly == {id \in TraceKeys : CloseRows(id) = {}}
OpenOnlyWithSpans == {id \in OpenOnly : SpansOf(id) # {}}

\* the duration of trace id from its start to the end of its last span
SpanDerived(id) ==
    MaxSpanEnd(id) - traceRows[CHOOSE i \in OpenRows(id) : TRUE].start_time.ms

\* C18: a trace of which only the open write exists is listed with a null
\* duration or with the duration up to the end of its last span, and when every
\* trace is such a trace the average of stats is taken over span-derived
\* durations only: no duration is computed from the stored epoch end time
C18_NoSentinelDuration ==
    /\ \A answer \in ListTracesAnswers : \A id \in OpenOnly :
          \/ answer[id].durationMs = NullDuration
          \/ /\ id \in OpenOnlyWithSpans
             /\ answer[id].durationMs.known
             /\ answer[id].durationMs.ms = SpanDerived(id)
             /\ answer[id].durationMs.ms > 0
    /\ OpenOnly = TraceKeys =>
          \A answer \in StatsAnswers :
              \E K \in SUBSET OpenOnlyWithSpans :
                  /\ answer.count = Cardinality(K)
                  /\ answer.sum = SumOf([id \in K |-> SpanDerived(id)], K)

\* a trace that was opened and never closed, with a stored span, has been
\* listed: its end time is the stored epoch and its duration is null
C18_Witness ==
    \E id \in OpenOnlyWithSpans :
        /\ id \in DOMAIN listed
        /\ listed[id].spanCount >= 1
        /\ listed[id].endTime = ToChDate(Iso(0))
        /\ listed[id].durationMs = NullDuration

\* the elements of a span request body that are no span
Invalid(body) ==
    {k \in 1..Len(body.items) : ~SpanSchemaParse(body.items[k]).success}

\* nothing is written to the store in this step
NoWrite == UNCHANGED <<traceRows, spanRows, rollupRows, inserts>>

\* the last request route path has handled, after this step
LastReply(path) == replies'[path][Len(replies'[path])]

\* C19: a trace request whose payload is invalid, and a span request one
\* element of which is invalid, is answered 400 and writes nothing: no row
\* of the valid elements of the batch is stored
C19_InvalidNeverStored ==
    [][/\ \A body \in TracePayloads :
             (PostTraces(body) /\ ~TraceSchemaParse(body).success)
                 => (LastReply("/traces").status = 400 /\ NoWrite)
       /\ \A body \in SpanBodies :
             (PostSpans(body) /\ Invalid(body) # {})
                 => (LastReply("/spans").status = 400 /\ NoWrite)]_vars

\* a span array whose first element is valid and whose second is not, and an
\* invalid trace payload, have been answered 400 with nothing stored
C19_Witness ==
    /\ \E i \in 1..Len(replies["/spans"]) :
          /\ replies["/spans"][i].status = 400
          /\ Len(replies["/spans"][i].body.items) = 2
          /\ Invalid(replies["/spans"][i].body) = {2}
    /\ \E i \in 1..Len(replies["/traces"]) : replies["/traces"][i].status = 400
    /\ spanRows = <<>> /\ rollupRows = <<>> /\ traceRows = <<>>
    /\ \A table \in Tables : inserts[table] = <<>>

\* the clickhouse.insert call made in this step, if it is the only one
OneInsert(table, n) ==
    /\ inserts'[table] = Append(inserts[table], n)
    /\ \A other \in Tables \ {table} : inserts'[other] = inserts[other]

\* C20: a trace request that passes validation makes one insert of one trace
\* row, and a span request all of whose k spans pass validation makes one
\* insert of k span rows, the i-th row for the i-th span submitted; both are
\* answered 202
C20_OneWritePerRequest ==
    [][/\ \A body \in TracePayloads :
             Accepted(body) =>
                /\ OneInsert("breadcrumb.traces", 1)
                /\ Len(traceRows') = Len(traceRows) + 1
                /\ SubSeq(traceRows', 1, Len(traceRows)) = traceRows
                /\ traceRows'[Len(traceRows')].id = body.id
                /\ spanRows' = spanRows
                /\ LastReply("/traces").status = 202
       /\ \A body \in SpanBodies :
             (PostSpans(body) /\ Invalid(body) = {}) =>
                LET k == Len(body.items)
                IN  /\ OneInsert("breadcrumb.spans", k)
                    /\ Len(spanRows') = Len(spanRows) + k
                    /\ SubSeq(spanRows', 1, Len(spanRows)) = spanRows
                    /\ \A i \in 1..k :
                          /\ spanRows'[Len(spanRows) + i].id = body.items[i].id
                          /\ spanRows'[Len(spanRows) + i].trace_id = body.items[i].trace_id
                    /\ traceRows' = traceRows
                    /\ LastReply("/spans").status = 202]_vars

\* a trace request, a span request with one span object and a span request
\* with an array of two spans have each made their insert
C20_Witness ==
    /\ inserts["breadcrumb.traces"] = <<1>>
    /\ Len(inserts["breadcrumb.spans"]) = 2
    /\ \E i, j \in 1..2 : inserts["breadcrumb.spans"][i] = 1 /\ inserts["breadcrumb.spans"][j] = 2
    /\ Len(traceRows) = 1
    /\ Len(spanRows) = 3

\* the trace requests the gateway has answered 202: body was processed before
Processed(body) ==
    \E i \in 1..Len(replies["/traces"]) :
        /\ replies["/traces"][i].body = body
        /\ replies["/traces"][i].status = 202

\* C21: when the gateway processes a trace request it has processed before (a
\* retry of a request that succeeded), at whatever later point, the answers
\* the read can give are the same as before the duplicate was processed
C21_DuplicateTraceWriteTolerated ==
    [][\A body \in TracePayloads :
          (Processed(body) /\ PostTraces(body))
              => ListTracesAnswers' = ListTracesAnswers]_vars

\* the span requests the gateway has answered 202: body was processed before
SpansProcessed(body) ==
    \E i \in 1..Len(replies["/spans"]) :
        /\ replies["/spans"][i].body = body
        /\ replies["/spans"][i].status = 202

\* C22: when the gateway processes a span request it has processed before (the
\* same spans, same ids), the rollup of every trace and the list of spans
\* returned for it are what they were before
C22_DuplicateSpanWriteIdempotent ==
    [][\A body \in ValidSpanBodies :
          (SpansProcessed(body) /\ PostSpans(body)) =>
              \A id \in 1..MaxTraceIds :
                  /\ Rollups(id)' = Rollups(id)
                  /\ SpansAnswers(id)' = SpansAnswers(id)]_vars

\* the traces that were opened, never closed, and have no span stored
OpenOnlyNoSpans == {id \in OpenOnly : SpansOf(id) = {}}

\* C23: a trace that was opened through the gateway, has no span and was never
\* closed is listed, by every answer the read can give, with status ok, a
\* null duration and cost 0
C23_OpenTraceListed ==
    \A answer \in ListTracesAnswers : \A id \in OpenOnlyNoSpans :
        /\ answer[id].status = "ok"
        /\ answer[id].durationMs = NullDuration
        /\ answer[id].costUsd = 0

\* such a trace has been listed next to a trace that has spans and a cost
C23_Witness ==
    \E id \in OpenOnlyNoSpans, other \in OpenOnlyWithSpans :
        /\ id \in DOMAIN listed
        /\ other \in DOMAIN listed
        /\ listed[id].status = "ok"
        /\ listed[id].durationMs = NullDuration
        /\ listed[id].costUsd = 0
        /\ listed[id].spanCount = 0
        /\ listed[other].costUsd > 0

\* C25: toMicroDollars gives a decimal amount's nearest whole number of
\* micro-dollars, halves rounded up (the amount is in tenths of a micro-dollar):
\* 0.000066 gives 66, 0.0000001 gives 0, 0.0000005 gives 1, an absent or zero
\* cost gives 0, and the result is never negative
C25_NearestMicroDollar ==
    \A i \in 1..Len(conversions) :
        LET usd    == conversions[i].usd
            micros == conversions[i].micros
        IN  /\ micros = (usd + 5) \div 10
            /\ micros >= 0
            /\ usd = 660 => micros = 66
            /\ usd = 1 => micros = 0
            /\ usd = 5 => micros = 1
            /\ usd = 0 => micros = 0

\* the open write of trace 1 was processed, then its close write, and the
\* span of the gateway's tests is stored once
LifeComplete ==
    /\ Len(traceRows) = 2
    /\ IsOpenRow(traceRows[1])
    /\ ~IsOpenRow(traceRows[2])
    /\ Len(spanRows) = 1

\* C24: after the open write, one span of 22 and 10 tokens costing 0.000066 and
\* 0.00015 USD, and the close write, the open one processed before the close
\* one, every answer of the read shows 32 tokens, a cost of 216 micro-dollars
\* and the duration from start_time to the close event's end_time, not to the
\* span's
C24_ReconciledView ==
    LifeComplete =>
        \A answer \in ListTracesAnswers :
            /\ answer[1].inputTokens + answer[1].outputTokens = 32
            /\ answer[1].costUsd = 216
            /\ answer[1].durationMs.known
            /\ answer[1].durationMs.ms =
                  ClosePayload(1).end_time.ms - OpenPayload(1).start_time.ms

\* ------------------------------------------------------------------ two tenants

\* a trace payload of trace 1 that also carries a project_id key, which
\* TraceSchema does not declare
ForgedPayload(name, project_id) ==
    [OpenPayload(1) EXCEPT !.name = name] @@ [project_id |-> project_id]

\* the body the clients of projectId send: it names the other project
TenantPayload(projectId) ==
    IF projectId = "p1" THEN ForgedPayload("n", "p2") ELSE ForgedPayload("m", "p1")

\* a span of trace 1 that also carries a project_id key
ForgedSpan(tokens, project_id) ==
    SpanPayload(1, 1, 2, tokens) @@ [project_id |-> project_id]

\* the span body the clients of projectId send
TenantSpanBody(projectId) ==
    [array |-> FALSE,
     items |-> <<IF projectId = "p1" THEN ForgedSpan(1, "p2")
                                     ELSE ForgedSpan(2, "p1")>>]

\* the gateway and the reads with two projects that use the same trace id
NextTenants ==
    \/ \E projectId \in Projects :
          posts < MaxStorePosts /\ SendPostFor(projectId, TenantPayload(projectId))
    \/ \E projectId \in Projects : PostTracesFor(projectId, TenantPayload(projectId))
    \/ \E projectId \in Projects :
          SendSpansPostFor(projectId, TenantSpanBody(projectId))
    \/ \E projectId \in Projects : PostSpansFor(projectId, TenantSpanBody(projectId))
    \/ \E i, j \in 1..Len(rollupRows) : MergeRollups(i, j)
    \/ \E projectId \in Projects : ListTracesFor(projectId)

SpecTenants == InitGateway /\ [][NextTenants]_vars

\* the rows of seq that a step appended
Added(before, after) == {after[i] : i \in (Len(before) + 1)..Len(after)}

\* what a query of projectId can be answered, for the list, the spans and the
\* rollups of every trace id
AnswersFor(projectId) ==
    [list    |-> ListTracesAnswersFor(projectId),
     spans   |-> [id \in 1..MaxTraceIds |-> SpansAnswersFor(projectId, id)],
     rollups |-> [id \in 1..MaxTraceIds |-> RollupsFor(projectId, id)]]

\* C26: every row a request stores carries the project the auth middleware
\* resolved for that request, whatever project_id the payload names, and
\* storing for one project leaves what every other project's queries are
\* answered unchanged, also when both projects use the same trace id
C26_TenantIsolation ==
    [][\A projectId \in Projects :
          /\ PostTracesFor(projectId, TenantPayload(projectId)) =>
                /\ \A row \in Added(traceRows, traceRows') :
                      row.project_id = projectId
                /\ \A other \in Projects \ {projectId} :
                      AnswersFor(other)' = AnswersFor(other)
          /\ PostSpansFor(projectId, TenantSpanBody(projectId)) =>
                /\ \A row \in Added(spanRows, spanRows')
                                \cup Added(rollupRows, rollupRows') :
                      row.project_id = projectId
                /\ \A other \in Projects \ {projectId} :
                      AnswersFor(other)' = AnswersFor(other)
          /\ ListTracesFor(projectId) =>
                \A id \in DOMAIN listed' :
                    \E i \in 1..Len(traceRows) :
                        /\ traceRows[i].project_id = projectId
                        /\ listed'[id].name = traceRows[i].name
                        /\ listed'[id].inputTokens
                              = RollupsFor(projectId, id).input_tokens]_vars

\* both projects stored a trace and a span of trace id 1 from payloads naming
\* the other project, and a list was answered
C26_Witness ==
    /\ \A projectId \in Projects :
          /\ \E i \in 1..Len(traceRows) :
                traceRows[i].project_id = projectId /\ traceRows[i].id = 1
          /\ \E i \in 1..Len(spanRows) :
                spanRows[i].project_id = projectId /\ spanRows[i].trace_id = 1
    /\ \E i, j \in 1..Len(traceRows) :
          /\ traceRows[i].project_id # traceRows[j].project_id
          /\ traceRows[i].name # traceRows[j].name
    /\ reads = 1
    /\ DOMAIN listed = {1}

\* ------------------------------------------------------------------ fields of the open write

\* the traces whose close write is later than the open write: both rows are
\* stored and every row of the highest version is a close row
ClosedLater ==
    {id \in TraceKeys : /\ OpenRows(id) # {}
                        /\ CloseRows(id) # {}
                        /\ MaxVersionRows(id) \subseteq CloseRows(id)}

\* C27: of a trace with an open write and a later close write, every answer of
\* the read shows the user_id and the environment of the open write, which the
\* close event does not carry
C27_CloseKeepsOpenFields ==
    \A answer \in ListTracesAnswers : \A id \in ClosedLater :
        /\ answer[id].userId = OpenPayload(id).user_id
        /\ answer[id].environment = OpenPayload(id).environment

\* ------------------------------------------------------------------ events of a trace

\* the events handle t has handed to the client, by kind
EventsOf(ev, t) == CloseEvents(ev, t)

\* the span events that carry the trace id of handle t
SpanEventsOf(t) ==
    {p \in Handed(Len(calls)) : p.ev = "span" /\ p.data.trace_id = traceHandles[t].id}

\* what the events of handle t are, once constructed: one open event without
\* end_time, handed before every span and close event of the trace, and at most
\* one close event, of the same id, name and start_time and not ending before
\* it started
TraceEventsInOrder(t) ==
    /\ Cardinality(EventsOf("open", t)) = 1
    /\ Cardinality(EventsOf("close", t)) <= 1
    /\ \A open \in EventsOf("open", t) :
          /\ open.data.end_time = Undefined
          /\ \A later \in EventsOf("close", t) \cup SpanEventsOf(t) : open.id < later.id
          /\ \A close \in EventsOf("close", t) :
                /\ close.data.id = open.data.id
                /\ close.data.name = open.data.name
                /\ close.data.start_time = open.data.start_time
                /\ close.data.end_time.fmt = "iso"
                /\ close.data.end_time.ms >= close.data.start_time.ms

\* C28: a TraceHandle has handed the client nothing before its construction
\* and exactly one open event, without end_time, from it on, before every span
\* and close event of its trace; it hands at most one close event, which
\* carries the id, name and start_time of the open event and an end_time not
\* earlier than start_time; and the end() call that hands the close event
\* gives it the status of its options, or ok when they hold none
C28_TraceEvents ==
    [][/\ \A t \in TraceHandleIds :
             IF traceHandles'[t].state = "none"
             THEN (EventsOf("open", t) \cup EventsOf("close", t))' = {}
             ELSE TraceEventsInOrder(t)'
       /\ \A t \in TraceHandleIds, opts \in EndOptions :
             (EndTraceOf(t, opts) /\ ~AlreadyEnded(traceHandles[t])) =>
                 \E close \in EventsOf("close", t)' :
                     /\ close.id = nextItem'
                     /\ close.data.status =
                           (IF opts.status = "undefined" THEN "ok" ELSE opts.status)]_vars

\* a trace ended twice, a millisecond or more after it started, with a span
\* handed in between and no status given
C28_Witness ==
    \E t \in TraceHandleIds :
        /\ traceHandles[t].ends = 2
        /\ SpanEventsOf(t) # {}
        /\ \E close \in EventsOf("close", t) :
              /\ close.data.status = "ok"
              /\ close.data.end_time.ms > close.data.start_time.ms
              /\ \E span \in SpanEventsOf(t) : span.id < close.id

\* ------------------------------------------------------------------ span trees

\* the SpanHandle objects constructed so far
Constructed == {s \in DOMAIN spanHandles : spanHandles[s].state # "none"}

RECURSIVE RootTrace(_)
\* the trace id at the root of the tree handle s was built in: that of the
\* top-level span it descends from
RootTrace(s) ==
    IF spanHandles[s].parentSpanId = NoSpan THEN spanHandles[s].traceId
    ELSE RootTrace(CHOOSE r \in Constructed : spanHandles[r].id = spanHandles[s].parentSpanId)

\* what the client has been handed for the spans: one payload per handle that
\* was ended and none for the others, each with the handle's id, the trace id
\* of the root and the handle's parent
SpanEventsOfTree ==
    \A s \in DOMAIN spanHandles :
        /\ Cardinality(EventsOf("span", s))
              = (IF spanHandles[s].state = "ended" THEN 1 ELSE 0)
        /\ \A p \in EventsOf("span", s) :
              /\ p.data.id = spanHandles[s].id
              /\ p.data.trace_id = RootTrace(s)
              /\ p.data.parent_span_id = spanHandles[s].parentSpanId

\* C29: constructing a span hands the client nothing, a span made by
\* TraceHandle.span has the trace's id and no parent, a span made by
\* SpanHandle.span has its parent's id as parent and the trace id of the root;
\* the client holds a span payload only for the handles that were ended, and
\* each payload carries these values
C29_SpanTree ==
    [][/\ SpanEventsOfTree'
       /\ \A s \in TreeSpanIds, t \in TraceHandleIds :
             TraceSpan(s, t) =>
                 /\ Handed(Len(calls))' = Handed(Len(calls))
                 /\ spanHandles'[s].traceId = traceHandles[t].id
                 /\ spanHandles'[s].parentSpanId = NoSpan
       /\ \A s, parent \in TreeSpanIds :
             SpanSpan(s, parent) =>
                 /\ Handed(Len(calls))' = Handed(Len(calls))
                 /\ spanHandles'[s].id # spanHandles[parent].id
                 /\ spanHandles'[s].parentSpanId = spanHandles[parent].id
                 /\ spanHandles'[s].traceId = RootTrace(parent)]_vars

\* a top-level span and its child were both ended: the client holds a payload
\* without parent and one whose parent is the first, of the same trace
C29_Witness ==
    \E p, q \in Handed(Len(calls)) :
        /\ p.ev = "span" /\ q.ev = "span"
        /\ p.data.parent_span_id = NoSpan
        /\ q.data.parent_span_id = p.data.id
        /\ q.data.trace_id = p.data.trace_id
        /\ \E t \in TraceHandleIds : traceHandles[t].id = q.data.trace_id

\* ------------------------------------------------------------------ size threshold

\* a call of sendTrace, sendSpan or sendSpans by the application
SendCall == CallSendTrace \/ CallSendSpan \/ \E k \in SpansArgs : CallSendSpans(k)

\* the step started a flush of kind "auto" that detached every item of both
\* buffers, one of them at the threshold or above
AutoFlushed ==
    /\ Len(calls') = Len(calls) + 1
    /\ calls'[Len(calls')].kind = "auto"
    /\ traceBuffer' = <<>>
    /\ spanBuffer' = <<>>
    /\ Len(calls'[Len(calls')].traces) + Len(calls'[Len(calls')].spans)
          = Len(traceBuffer) + Len(spanBuffer) + (nextItem' - nextItem)
    /\ \/ Len(calls'[Len(calls')].traces) >= maxBatchSize
       \/ Len(calls'[Len(calls')].spans) >= maxBatchSize

\* C30: when sendTrace, sendSpan or sendSpans returns, the trace buffer and the
\* span buffer each hold fewer than maxBatchSize items: either no buffer
\* reached the threshold and no flush was started, or the call itself started
\* a flush that detached both buffers
C30_BelowThreshold ==
    [][SendCall =>
          /\ Len(traceBuffer') < maxBatchSize
          /\ Len(spanBuffer') < maxBatchSize
          /\ \/ AutoFlushed
             \/ /\ calls' = calls
                /\ Len(traceBuffer') + Len(spanBuffer')
                      = Len(traceBuffer) + Len(spanBuffer) + (nextItem' - nextItem)]_vars

\* a sendSpans call reached the threshold while a trace was buffered: its flush
\* detached the trace and the spans
C30_Witness ==
    \E c \in 1..Len(calls) :
        /\ calls[c].kind = "auto"
        /\ Len(calls[c].traces) = 1
        /\ Len(calls[c].spans) >= maxBatchSize

\* ------------------------------------------------------------------ open to closed

\* the view shows no end_time of the trace: the one the gateway stores for an
\* open event
ShownOpen(view) == view.endTime = ToChDate(Iso(0))

\* the traces every read shows as closed
ShownClosed ==
    {id \in TraceKeys : \A answer \in ListTracesAnswers : ~ShownOpen(answer[id])}

\* C31: a trace that every read shows with an end_time is shown with one by
\* every read after the gateway has processed a further open or close write,
\* a delayed or retried open event included
C31_OpenToClosedOnly ==
    [][\A body \in TracePayloads :
          PostTraces(body) =>
              \A id \in ShownClosed :
                  \A answer \in ListTracesAnswers' : ~ShownOpen(answer[id])]_vars

\* ------------------------------------------------------------------ timer delivery

\* item n is in the body of a request that was issued
Transmitted(n) == Deliveries(Calls, n) # {}

C33_SettledAfterAllRequests ==
    \A c \in Calls :
        (calls[c].kind \in Explicit /\ calls[c].st # "pending") =>
            \A r \in Requests : requests[r].call = c => requests[r].st # "inflight"

\* ------------------------------------------------------------------ one place per item

\* the positions of the two buffers that hold item id
Positions(id) ==
    {<<"trace", i>> : i \in {k \in DOMAIN traceBuffer : traceBuffer[k].id = id}}
        \cup {<<"span", i>> : i \in {k \in DOMAIN spanBuffer : spanBuffer[k].id = id}}

\* C34: every item enqueued so far is in exactly one place, a position of its
\* buffer or a position of one request that was issued, and the spans of a
\* request are in the order they were enqueued in
C34_OnePlacePerItem ==
    /\ \A id \in 1..nextItem :
          Cardinality(Positions(id)) + Cardinality(Deliveries(Calls, id)) = 1
    /\ \A r \in Requests :
          requests[r].path = "/v1/spans" =>
              \A i, j \in DOMAIN requests[r].body :
                  i < j => requests[r].body[i].id < requests[r].body[j].id

\* a sendSpans call had its two spans sent in one request, and a shutdown() or
\* a timer flush has detached an item
C34_Witness ==
    /\ \E r \in Requests : requests[r].path = "/v1/spans" /\ Len(requests[r].body) >= 2
    /\ \E c \in Calls : calls[c].kind \in {"shutdown", "timer"} /\ ItemsOf(c) # {}

\* ------------------------------------------------------------------ the ClickHouse migration runner

\* A file of the migrations directory: the digits of its name before the first
\* "_", none when the name begins with a letter, and its extension.
\* Numbered files follow 0001_initial.sql: prefixes of one width, padded with zeros.
MigrationFile(version) ==
    [prefix |-> <<version \div 10, version % 10>>, ext |-> "sql"]

Unnumbered == [prefix |-> <<>>, ext |-> "sql"]
Readme == [prefix |-> <<>>, ext |-> "md"]
FileNames == {MigrationFile(v) : v \in 1..MaxMigrations} \cup {Unnumbered, Readme}

\* parseInt(file.split("_")[0], 10) is NaN when the name begins with no digit
VersionIsNaN(file) == file.prefix = <<>>

RECURSIVE ParseDigits(_)
ParseDigits(digits) ==
    IF digits = <<>> THEN 0
    ELSE ParseDigits(SubSeq(digits, 1, Len(digits) - 1)) * 10 + digits[Len(digits)]

VersionOf(file) == ParseDigits(file.prefix)

\* the order of Array.prototype.sort() on strings: by code units, left to right;
\* a letter follows every digit
RECURSIVE LexLess(_, _)
LexLess(a, b) ==
    IF b = <<>> THEN FALSE
    ELSE IF a = <<>> THEN TRUE
    ELSE IF Head(a) # Head(b) THEN Head(a) < Head(b)
    ELSE LexLess(Tail(a), Tail(b))

NameLess(a, b) ==
    IF VersionIsNaN(a) THEN FALSE
    ELSE IF VersionIsNaN(b) THEN TRUE
    ELSE LexLess(a.prefix, b.prefix)

RECURSIVE SortNames(_)
SortNames(names) ==
    IF names = {} THEN <<>>
    ELSE LET first == CHOOSE a \in names : \A b \in names \ {a} : NameLess(a, b)
         IN  <<first>> \o SortNames(names \ {first})

\* SELECT max(version) AS v FROM breadcrumb.schema_migrations: 0 over no rows
MaxVersion(rows) ==
    IF rows = <<>> THEN 0
    ELSE CHOOSE v \in {rows[i].version : i \in 1..Len(rows)} :
             \A i \in 1..Len(rows) : rows[i].version <= v

\* a loop that passes over no numbered file
ToApplyAll(files, appliedVersion) ==
    SelectSeq(files, LAMBDA file : ~VersionIsNaN(file))

\* the files the loop of step 5 does not pass over with continue
ToApply(files, appliedVersion) ==
    SelectSeq(files, LAMBDA file :
        ~VersionIsNaN(file) /\ ~(VersionOf(file) <= appliedVersion))

\* the runner has returned or thrown
Stopped(outcome) ==
    [runner EXCEPT !.pc = "idle", !.files = <<>>, !.stmt = 0, !.outcome = outcome]

\* a file is written to the migrations directory
AddFile(name) ==
    /\ name \notin migrationFiles
    /\ migrationFiles' = migrationFiles \cup {name}
    /\ UNCHANGED <<schemaMigrations, statementLog, runner>>
    /\ UNCHANGED <<now, wire, posts, traceRows, replies, storeVars, readVars,
                   authVars, jsonCalls, clientVars, sdkVars>>

\* runClickhouseMigrations(), steps 1 to 4 and the entry of the loop of step 5
RunStart ==
    /\ runner.pc = "idle"
    /\ runner.runs < MaxRuns
    /\ LET appliedVersion == MaxVersion(schemaMigrations)
           files == SortNames({f \in migrationFiles : f.ext = "sql"})
           todo == ToApply(files, appliedVersion)
       IN  runner' = [pc |-> IF todo = <<>> THEN "idle" ELSE "applying",
                      appliedVersion |-> appliedVersion,
                      files |-> todo,
                      stmt |-> IF todo = <<>> THEN 0 ELSE 1,
                      runs |-> runner.runs + 1,
                      outcome |-> IF todo = <<>> THEN "nothing to apply" ELSE "none"]
    /\ UNCHANGED <<migrationFiles, schemaMigrations, statementLog>>
    /\ UNCHANGED <<now, wire, posts, traceRows, replies, storeVars, readVars,
                   authVars, jsonCalls, clientVars, sdkVars>>

\* a statement loop that goes on after a refused command
RunStatementOn(ok) ==
    /\ runner.pc = "applying"
    /\ runner.stmt <= MaxStatements
    /\ statementLog' = Append(statementLog,
           [version |-> VersionOf(Head(runner.files)), stmt |-> runner.stmt,
            run |-> runner.runs, ok |-> ok])
    /\ runner' = [runner EXCEPT !.stmt = runner.stmt + 1]
    /\ UNCHANGED <<migrationFiles, schemaMigrations>>
    /\ UNCHANGED <<now, wire, posts, traceRows, replies, storeVars, readVars,
                   authVars, jsonCalls, clientVars, sdkVars>>

\* one round of the statement loop: the command runs, or is refused and throws
RunStatement(ok) ==
    /\ runner.pc = "applying"
    /\ runner.stmt <= MaxStatements
    /\ statementLog' = Append(statementLog,
           [version |-> VersionOf(Head(runner.files)), stmt |-> runner.stmt,
            run |-> runner.runs, ok |-> ok])
    /\ runner' = IF ok THEN [runner EXCEPT !.stmt = runner.stmt + 1]
                 ELSE Stopped("thrown")
    /\ UNCHANGED <<migrationFiles, schemaMigrations>>
    /\ UNCHANGED <<now, wire, posts, traceRows, replies, storeVars, readVars,
                   authVars, jsonCalls, clientVars, sdkVars>>

\* the INSERT INTO breadcrumb.schema_migrations after the statement loop, and the
\* step to the next file
RecordVersion(ok) ==
    /\ runner.pc = "applying"
    /\ runner.stmt > MaxStatements
    /\ IF ok
       THEN /\ schemaMigrations' = Append(schemaMigrations,
                   [version |-> VersionOf(Head(runner.files)),
                    name |-> Head(runner.files)])
            /\ runner' = IF Tail(runner.files) = <<>> THEN Stopped("applied")
                         ELSE [runner EXCEPT !.files = Tail(runner.files), !.stmt = 1]
       ELSE /\ UNCHANGED schemaMigrations
            /\ runner' = Stopped("thrown")
    /\ UNCHANGED <<migrationFiles, statementLog>>
    /\ UNCHANGED <<now, wire, posts, traceRows, replies, storeVars, readVars,
                   authVars, jsonCalls, clientVars, sdkVars>>

NextMigrations ==
    \/ \E name \in FileNames : AddFile(name)
    \/ RunStart
    \/ \E ok \in BOOLEAN : RunStatement(ok)
    \/ \E ok \in BOOLEAN : RecordVersion(ok)

SpecMigrations == InitGateway /\ [][NextMigrations]_vars

\* the version of the migration the runner is applying
Applying == VersionOf(Head(runner.files))

\* every numbered .sql file of the directory has its version recorded
NoNewFiles ==
    \A f \in migrationFiles :
        (f.ext = "sql" /\ ~VersionIsNaN(f)) =>
            \E i \in 1..Len(schemaMigrations) : schemaMigrations[i].version = VersionOf(f)

\* C35: in a run the runner applies migration files in ascending version order, and only
\* files whose version is greater than the highest recorded one; a version is
\* recorded after its statements ran; a run that finds no new file applies
\* nothing, and no recorded migration is applied again.
C35_AppliesNewVersionsOnce ==
    [][/\ \A ok \in BOOLEAN : RunStatement(ok) =>
              /\ Applying > MaxVersion(schemaMigrations)
              /\ \A i \in 1..Len(statementLog) :
                     statementLog[i].run = runner.runs =>
                         statementLog[i].version <= Applying
       /\ RecordVersion(TRUE) =>
              /\ Applying > MaxVersion(schemaMigrations)
              /\ \A stmt \in 1..MaxStatements :
                     [version |-> Applying, stmt |-> stmt, run |-> runner.runs,
                      ok |-> TRUE] \in Range(statementLog)
       /\ (RunStart /\ NoNewFiles) =>
              /\ runner'.pc = "idle"
              /\ runner'.outcome = "nothing to apply"
      ]_vars

\* two migrations were applied and recorded by one run, and the next run found
\* nothing to apply
C35_Witness ==
    /\ runner.runs > 1
    /\ runner.outcome = "nothing to apply"
    /\ Len(schemaMigrations) > 1
    /\ \E i, j \in 1..Len(statementLog) :
           i < j /\ statementLog[i].version < statementLog[j].version

\* the statements sent by one run, in the order sent
LogOfRun(run) == SelectSeq(statementLog, LAMBDA entry : entry.run = run)

\* the versions of the files a run is left with, in the order it takes them
VersionsOf(files) == [i \in 1..Len(files) |-> VersionOf(files[i])]

\* the last run ended because a statement of this version was refused
FailedAt(version) ==
    /\ runner.pc = "idle"
    /\ runner.outcome = "thrown"
    /\ statementLog # <<>>
    /\ ~statementLog[Len(statementLog)].ok
    /\ statementLog[Len(statementLog)].version = version

\* C36: a refused statement stops the runner: the version of its migration is not
\* recorded and no further statement is sent in that run; the next run takes that
\* migration again from its first statement; a recorded version has had all of
\* its statements run successfully in one run.
C36_FailureStopsTheRun ==
    /\ [](\A run \in 1..MaxRuns :
              LET log == LogOfRun(run) IN
              /\ \A i \in 1..Len(log) : ~log[i].ok => i = Len(log)
              /\ \A i \in 1..Len(log) :
                     (i = 1 \/ log[i - 1].version # log[i].version) => log[i].stmt = 1)
    /\ [](\A i \in 1..Len(schemaMigrations) :
              \E run \in 1..MaxRuns : \A stmt \in 1..MaxStatements :
                  [version |-> schemaMigrations[i].version, stmt |-> stmt,
                   run |-> run, ok |-> TRUE] \in Range(statementLog))
    /\ [][/\ RunStatement(FALSE) =>
                 /\ runner'.pc = "idle"
                 /\ schemaMigrations' = schemaMigrations
                 /\ \A i \in 1..Len(schemaMigrations) :
                        schemaMigrations[i].version # Applying
          /\ \A version \in 1..MaxMigrations : (FailedAt(version) /\ RunStart) =>
                 /\ runner'.pc = "applying"
                 /\ runner'.stmt = 1
                 /\ \E k \in 1..Len(runner'.files) :
                        /\ VersionsOf(runner'.files)[k] = version
                        /\ \A j \in 1..(k - 1), i \in 1..Len(statementLog) :
                               statementLog[i].version # VersionsOf(runner'.files)[j]
         ]_vars

\* the second statement of a migration was refused, and the next run sent its
\* first statement again and recorded the version
C36_Witness ==
    \E i, j \in 1..Len(statementLog) :
        /\ i < j
        /\ ~statementLog[i].ok
        /\ statementLog[i].stmt > 1
        /\ statementLog[j].run > statementLog[i].run
        /\ statementLog[j].stmt = 1
        /\ statementLog[j].version = statementLog[i].version
        /\ \E k \in 1..Len(schemaMigrations) :
               schemaMigrations[k].version = statementLog[i].version

\* ------------------------------------------------------------------ API-key resolution

\* KEY_CACHE_TTL, in ticks of the gateway's clock
KEY_CACHE_TTL == 2

\* the value resolveApiKey returns for an unknown key
NoProject == ""

\* a cache test that does not look at the clock
CacheHitAnyTime(cached, time) == cached # NoEntry

\* cached && cached.expiresAt > Date.now()
CacheHit(cached, time) == cached # NoEntry /\ cached.expiresAt > time

\* apiKeys.create: a key is generated and its hash stored
CreateKey(hash) ==
    /\ apiKeys[hash] = "absent"
    /\ apiKeys' = [apiKeys EXCEPT ![hash] = "present"]
    /\ UNCHANGED <<keyCache, lookups>>
    /\ UNCHANGED <<now, wire, posts, traceRows, replies, storeVars, readVars,
                   migrationVars, jsonCalls, clientVars, sdkVars>>

\* apiKeys.delete: the row is deleted; keyCache is not touched
DeleteKey(hash) ==
    /\ apiKeys[hash] = "present"
    /\ apiKeys' = [apiKeys EXCEPT ![hash] = "deleted"]
    /\ UNCHANGED <<keyCache, lookups>>
    /\ UNCHANGED <<now, wire, posts, traceRows, replies, storeVars, readVars,
                   migrationVars, jsonCalls, clientVars, sdkVars>>

\* resolveApiKey(hash) up to its await: the answer from the cache, or the query sent
ResolveStart(hash) ==
    /\ Len(lookups) < MaxLookups
    /\ LET cached == keyCache[hash] IN
       lookups' = Append(lookups,
           IF CacheHit(cached, now)
           THEN [hash |-> hash, pc |-> "returned", via |-> "cache", cached |-> cached,
                 found |-> FALSE, at |-> now, result |-> cached.projectId]
           ELSE [hash |-> hash, pc |-> "select", via |-> "db", cached |-> cached,
                 found |-> FALSE, at |-> now, result |-> NoProject])
    /\ UNCHANGED <<apiKeys, keyCache>>
    /\ UNCHANGED <<now, wire, posts, traceRows, replies, storeVars, readVars,
                   migrationVars, jsonCalls, clientVars, sdkVars>>

\* the database evaluates the select of a lookup
DbSelect(l) ==
    /\ lookups[l].pc = "select"
    /\ lookups' = [lookups EXCEPT ![l].pc = "selected",
                                  ![l].found = (apiKeys[lookups[l].hash] = "present")]
    /\ UNCHANGED <<apiKeys, keyCache>>
    /\ UNCHANGED <<now, wire, posts, traceRows, replies, storeVars, readVars,
                   migrationVars, jsonCalls, clientVars, sdkVars>>

\* the database refuses the select: the await rejects and resolveApiKey throws
DbReject(l) ==
    /\ lookups[l].pc = "select"
    /\ lookups' = [lookups EXCEPT ![l].pc = "thrown", ![l].at = now]
    /\ UNCHANGED <<apiKeys, keyCache>>
    /\ UNCHANGED <<now, wire, posts, traceRows, replies, storeVars, readVars,
                   migrationVars, jsonCalls, clientVars, sdkVars>>

\* resolveApiKey after its await
ResolveFinish(l) ==
    /\ lookups[l].pc = "selected"
    /\ IF ~lookups[l].found
       THEN /\ keyCache' = [keyCache EXCEPT ![lookups[l].hash] = NoEntry]
            /\ lookups' = [lookups EXCEPT ![l].pc = "returned", ![l].at = now,
                                          ![l].result = NoProject]
       ELSE /\ keyCache' = [keyCache EXCEPT ![lookups[l].hash] =
                               [projectId |-> ProjectId,
                                expiresAt |-> now + KEY_CACHE_TTL]]
            /\ lookups' = [lookups EXCEPT ![l].pc = "returned", ![l].at = now,
                                          ![l].result = ProjectId]
    /\ UNCHANGED apiKeys
    /\ UNCHANGED <<now, wire, posts, traceRows, replies, storeVars, readVars,
                   migrationVars, jsonCalls, clientVars, sdkVars>>

NextAuth ==
    \/ \E hash \in KeyHashes : CreateKey(hash)
    \/ \E hash \in KeyHashes : DeleteKey(hash)
    \/ \E hash \in KeyHashes : ResolveStart(hash)
    \/ \E l \in 1..Len(lookups) : DbSelect(l)
    \/ \E l \in 1..Len(lookups) : DbReject(l)
    \/ \E l \in 1..Len(lookups) : ResolveFinish(l)
    \/ Tick

SpecAuth == InitGateway /\ [][NextAuth]_vars

\* the lookups that found the key in the database and have returned
Validated(hash) ==
    {v \in 1..Len(lookups) :
        /\ lookups[v].hash = hash
        /\ lookups[v].via = "db"
        /\ lookups[v].pc = "returned"
        /\ lookups[v].found}

\* C37: resolveApiKey answers from the cache only while the entry's expiry time
\* lies ahead, caches nothing for a lookup that failed and removes the entry when
\* the database does not know the key, so a key is accepted only by a lookup made
\* less than KEY_CACHE_TTL after a lookup that found it in the database.
C37_KeyCacheExpires ==
    /\ [](\A l \in 1..Len(lookups) :
              /\ lookups[l].via = "cache" =>
                     /\ lookups[l].cached # NoEntry
                     /\ lookups[l].cached.expiresAt > lookups[l].at
              /\ (lookups[l].pc = "returned" /\ lookups[l].result # NoProject) =>
                     \E v \in Validated(lookups[l].hash) :
                         /\ lookups[v].at <= lookups[l].at
                         /\ lookups[l].at < lookups[v].at + KEY_CACHE_TTL)
    /\ [](\A hash \in KeyHashes :
              keyCache[hash] # NoEntry =>
                  \E v \in Validated(hash) :
                      keyCache[hash].expiresAt = lookups[v].at + KEY_CACHE_TTL)
    /\ [][\A l \in 1..Len(lookups) :
              /\ (ResolveFinish(l) /\ ~lookups[l].found) =>
                     /\ keyCache'[lookups[l].hash] = NoEntry
                     /\ lookups'[l].result = NoProject
              /\ DbReject(l) => keyCache' = keyCache
         ]_vars

\* a key was found in the database and cached, then deleted; a lookup within the
\* TTL was answered from the cache, and one after the TTL asked the database,
\* was rejected and removed the entry
C37_Witness ==
    \E v, c, r \in 1..Len(lookups) :
        /\ v < c /\ c < r
        /\ v \in Validated(lookups[v].hash)
        /\ lookups[c].via = "cache" /\ lookups[c].result = ProjectId
        /\ lookups[r].via = "db" /\ lookups[r].pc = "returned"
        /\ lookups[r].cached # NoEntry
        /\ lookups[r].result = NoProject
        /\ lookups[r].at >= lookups[v].at + KEY_CACHE_TTL
        /\ apiKeys[lookups[v].hash] = "deleted"
        /\ keyCache[lookups[v].hash] = NoEntry

\* the flushes started by the timer whose promise has not settled
TimerFlushesInFlight == {c \in Calls : calls[c].kind = "timer" /\ calls[c].st = "pending"}

\* C38: at most one auto-flush timeout is pending and at most one flush started by
\* the timer is in flight, and never both: the timeout is set again only when the
\* flush of the previous tick has settled.
C38_OneTimerChain ==
    timeouts + Cardinality(TimerFlushesInFlight) <= 1

\* the flush of one tick has settled and the flush of the next tick is in flight
\* with no timeout pending
C38_Witness ==
    /\ timeouts = 0
    /\ \E c, d \in Calls :
           /\ c < d
           /\ calls[c].kind = "timer" /\ calls[c].st # "pending" /\ ItemsOf(c) # {}
           /\ d \in TimerFlushesInFlight

\* ------------------------------------------------------------------ toJson

\* The values a payload field can hold after the request body was parsed: absent
\* (undefined), or a JSON value. Strings inside arrays and objects hold no
\* character JSON.stringify escapes.
JsUndefined == [type |-> "undefined"]
JsNull == [type |-> "null"]
JsString(s) == [type |-> "string", str |-> s]
JsNumber(n) == [type |-> "number", num |-> n]
JsBoolean(b) == [type |-> "boolean", bool |-> b]
JsArray(items) == [type |-> "array", items |-> items]
\* an object: its own properties in insertion order, each <<key, value>>
JsObject(entries) == [type |-> "object", entries |-> entries]

RECURSIVE JoinWithCommas(_)
JoinWithCommas(parts) ==
    IF parts = <<>> THEN ""
    ELSE IF Len(parts) = 1 THEN parts[1]
    ELSE parts[1] \o "," \o JoinWithCommas(Tail(parts))

\* JSON.stringify(value) for a value other than undefined
RECURSIVE Stringify(_)
Stringify(value) ==
    CASE value.type = "null" -> "null"
      [] value.type = "string" -> "\"" \o value.str \o "\""
      [] value.type = "number" -> ToString(value.num)
      [] value.type = "boolean" -> IF value.bool THEN "true" ELSE "false"
      [] value.type = "array" ->
            "[" \o JoinWithCommas([i \in 1..Len(value.items) |->
                                        Stringify(value.items[i])]) \o "]"
      [] value.type = "object" ->
            "{" \o JoinWithCommas([i \in 1..Len(value.entries) |->
                       "\"" \o value.entries[i][1] \o "\":"
                            \o Stringify(value.entries[i][2])]) \o "}"

\* a toJson that hands every present value to JSON.stringify
ToJsonStringified(value) ==
    IF value = JsUndefined THEN "" ELSE Stringify(value)

\* toJson(value)
ToJson(value) ==
    IF value = JsUndefined \/ value = JsNull THEN ""
    ELSE IF value.type = "string" THEN value.str
    ELSE Stringify(value)

\* the payloads handed to toJson: those of the unit tests and their neighbours
JsonValues ==
    { JsUndefined, JsNull,
      JsString(""), JsString("hello"), JsString("{\"key\":\"value\"}"), JsString("null"),
      JsNumber(42), JsNumber(0), JsBoolean(TRUE), JsBoolean(FALSE),
      JsArray(<<>>), JsArray(<<JsNumber(1), JsNumber(2), JsNumber(3)>>),
      JsArray(<<JsNull, JsString("a")>>),
      JsObject(<<>>),
      JsObject(<< <<"role", JsString("user")>>, <<"content", JsString("hi")>> >>),
      JsObject(<< <<"messages", JsArray(<<JsObject(<< <<"n", JsNumber(1)>> >>)>>)>>,
                  <<"stream", JsBoolean(FALSE)>>, <<"stop", JsNull>> >>) }

\* input: toJson(t.input) and its like in the two ingest handlers
CallToJson(value) ==
    /\ Len(jsonCalls) < MaxJsonCalls
    /\ jsonCalls' = Append(jsonCalls, [value |-> value, json |-> ToJson(value)])
    /\ UNCHANGED <<now, wire, posts, traceRows, replies, storeVars, readVars,
                   migrationVars, authVars, clientVars, sdkVars>>

NextJson == \E value \in JsonValues : CallToJson(value)

SpecJson == InitGateway /\ [][NextJson]_vars

\* the JSON text of each value of JsonValues that is a number, a boolean, an
\* array or an object, written out
JsonText(value) ==
    CASE value = JsNumber(42) -> "42"
      [] value = JsNumber(0) -> "0"
      [] value = JsBoolean(TRUE) -> "true"
      [] value = JsBoolean(FALSE) -> "false"
      [] value = JsArray(<<>>) -> "[]"
      [] value = JsArray(<<JsNumber(1), JsNumber(2), JsNumber(3)>>) -> "[1,2,3]"
      [] value = JsArray(<<JsNull, JsString("a")>>) -> "[null,\"a\"]"
      [] value = JsObject(<<>>) -> "{}"
      [] value = JsObject(<< <<"role", JsString("user")>>, <<"content", JsString("hi")>> >>)
            -> "{\"role\":\"user\",\"content\":\"hi\"}"
      [] OTHER -> "{\"messages\":[{\"n\":1}],\"stream\":false,\"stop\":null}"

\* C39: toJson gives the empty string for an absent payload and for null alike,
\* gives a string payload back unchanged, and gives the JSON text of every other
\* value.
C39_ToJson ==
    \A c \in 1..Len(jsonCalls) :
        LET value == jsonCalls[c].value
            json == jsonCalls[c].json
        IN  /\ value \in {JsUndefined, JsNull} => json = ""
            /\ value.type = "string" => json = value.str
            /\ value.type \notin {"undefined", "null", "string"} =>
                   json = JsonText(value)

\* toJson was called with null and with an object, or with a string and an array
C39_Witness ==
    \E c, d \in 1..Len(jsonCalls) :
        /\ jsonCalls[c].value \in {JsNull, JsString("hello")}
        /\ jsonCalls[d].value.type \in {"object", "array"}
        /\ jsonCalls[d].json # ""

====
